---- MODULE Spec2Model ----
(***************************************************************************)
(* Verification model of carterburn/aoc-23.                                *)
(*                                                                         *)
(* Day 5 (src/day5/src/main.rs): the almanac range translator.  A Range    *)
(* is a record [source_start, dest_start, range_len], an AlMap is the      *)
(* sequence of its ranges in stored order, an interval is a pair           *)
(* <<start, length>>.  Option<T> is modelled as a sequence: <<>> is None   *)
(* and <<x>> is Some(x).  All values stay far below 2^64, where u64        *)
(* arithmetic and the arithmetic of the naturals agree; every subtraction  *)
(* of the code is guarded by a comparison or a max/min and is modelled     *)
(* as written.                                                             *)
(***************************************************************************)
EXTENDS Integers, Sequences, FiniteSets, TLC

VARIABLES alm, pc, stage, map, input, init_ranges, final_ranges, src_rng, hit, ret, answer,
          source, idx, dest, text, conversions, stdout, exit,
          camel_input, camel_cards, m_values, jk, p2,
          network, positions, steps, distances, curr, nav_ret, p2_lcm,
          graph, dist_map, n1, n2, n1_last, n2_last, n1_dist, n2_dist, max_dist,
          trace_graph, path, path_last, cur, inside,
          races, big_race, naive_ret, smart_ret,
          sky, expansion, galaxy, pairs_sum, slow_sum,
          gear_input, gk, gears, gear_sum,
          history, overflow_checks, part1_pc, part1_l, part1_stack, part1_ret, part1_calls, part2_pc, part2_l, part2_stack, part2_ret, part2_calls

vars == <<alm, pc, stage, map, input, init_ranges, final_ranges, src_rng, hit, ret, answer,
          source, idx, dest, text, conversions, stdout, exit,
          camel_input, camel_cards, m_values, jk, p2,
          network, positions, steps, distances, curr, nav_ret, p2_lcm,
          graph, dist_map, n1, n2, n1_last, n2_last, n1_dist, n2_dist, max_dist,
          trace_graph, path, path_last, cur, inside,
          races, big_race, naive_ret, smart_ret,
          sky, expansion, galaxy, pairs_sum, slow_sum,
          gear_input, gk, gears, gear_sum,
          history, overflow_checks, part1_pc, part1_l, part1_stack, part1_ret, part1_calls, part2_pc, part2_l, part2_stack, part2_ret, part2_calls>>

main_vars == <<text, conversions, stdout, exit>>

convert_vars == <<source, idx, dest>>

ranges_vars == <<input, init_ranges, final_ranges, src_rng, hit, ret>>

(* Day 5 without its program counter.                                      *)
almanac_vars == <<alm, stage, map, answer, ranges_vars, convert_vars, main_vars>>

(* Day 7: the input lines, CamelCards.cards, the values of the count map   *)
(* in the order HandType::new last iterated them, the position of          *)
(* CamelCards::with_joker in its loop, and its return value.               *)
camel_vars == <<camel_input, camel_cards, m_values, jk, p2>>

(* Day 8, part 2: the parsed Map, the locals positions, steps and          *)
(* distances of main, Navigator.curr, the value the last call of           *)
(* Navigator::next returned, and the folded least common multiple.         *)
network_vars == <<network, positions, steps, distances, curr, nav_ret, p2_lcm>>

(* Day 10: the parsed Graph, the locals of max_distance_from_start (its    *)
(* HashMap distances is dist_map) and its return value.                    *)
maze_vars == <<graph, dist_map, n1, n2, n1_last, n2_last, n1_dist, n2_dist, max_dist>>

(* Day 10, part 2: the Graph of part2.rs, the locals path, last and cur of *)
(* find_main_loop, and the return value of ray_trace.                      *)
trace_vars == <<trace_graph, path, path_last, cur, inside>>

(* Day 6: IslandRaces.races, the BigRace built by remove_kerning, and the  *)
(* values BigRace::naive and BigRace::smart returned.                      *)
race_vars == <<races, big_race, naive_ret, smart_ret>>

(* Day 11: the lines of the input, the expansion amount the program is     *)
(* built with, the Graph of main.rs, and the sums main.rs and              *)
(* part1-slow.rs print.                                                    *)
sky_vars == <<sky, expansion, galaxy, pairs_sum, slow_sum>>

(* Day 3: the calls of gear_insert main makes, as triples (row, col, val), *)
(* the number of them made so far, the map gears and the gear sum.         *)
gear_vars == <<gear_input, gk, gears, gear_sum>>

(* Day 9: one history of the input, the overflow checking of the build,    *)
(* and the two programs run on it: the position of each, the argument of   *)
(* its running call, the values its suspended callers keep, the value      *)
(* returned, and the calls made.                                           *)
oasis_vars == <<history, overflow_checks, part1_pc, part1_l, part1_stack, part1_ret, part1_calls, part2_pc, part2_l, part2_stack, part2_ret, part2_calls>>

(* The days a day-5 run leaves alone, and their state in such a run.       *)
other_days == <<camel_vars, network_vars, maze_vars, trace_vars, race_vars, sky_vars, gear_vars, oasis_vars>>

CamelIdle ==
    /\ camel_input = << >>
    /\ camel_cards = << >>
    /\ m_values = << >>
    /\ jk = 0
    /\ p2 = << >>

NetworkIdle ==
    /\ network = << >>
    /\ positions = << >>
    /\ steps = 0
    /\ distances = << >>
    /\ curr = 0
    /\ nav_ret = << >>
    /\ p2_lcm = << >>

MazeIdle ==
    /\ graph = << >>
    /\ dist_map = << >>
    /\ n1 = << >>
    /\ n2 = << >>
    /\ n1_last = << >>
    /\ n2_last = << >>
    /\ n1_dist = 0
    /\ n2_dist = 0
    /\ max_dist = << >>

TraceIdle ==
    /\ trace_graph = << >>
    /\ path = {}
    /\ path_last = << >>
    /\ cur = << >>
    /\ inside = << >>

RaceIdle ==
    /\ races = << >>
    /\ big_race = << >>
    /\ naive_ret = << >>
    /\ smart_ret = << >>

SkyIdle ==
    /\ sky = << >>
    /\ expansion = 0
    /\ galaxy = << >>
    /\ pairs_sum = << >>
    /\ slow_sum = << >>

GearIdle ==
    /\ gear_input = << >>
    /\ gk = 0
    /\ gears = << >>
    /\ gear_sum = << >>

OasisIdle ==
    /\ history = << >>
    /\ overflow_checks = FALSE
    /\ part1_pc = "idle"
    /\ part1_l = << >>
    /\ part1_stack = << >>
    /\ part1_ret = << >>
    /\ part1_calls = 0
    /\ part2_pc = "idle"
    /\ part2_l = << >>
    /\ part2_stack = << >>
    /\ part2_ret = << >>
    /\ part2_calls = 0

OtherDaysIdle == CamelIdle /\ NetworkIdle /\ MazeIdle /\ TraceIdle /\ RaceIdle /\ SkyIdle /\ GearIdle /\ OasisIdle

(* ------------------------------ bounds --------------------------------- *)

MaxStart == 1

MaxLen == 2

MaxRules == 2

MaxLabels == 5

MaxPairLabels == 2

MaxNodes == 3

MaxSteps == 4

MaxRows == 3

MaxCols == 3

MaxRaces == 2

MaxMs == 3

MaxGalaxies == 3

MaxCalls == 5

(* ------------------------------ helpers -------------------------------- *)

None == <<>>

Some(x) == <<x>>

max(a, b) == IF a >= b THEN a ELSE b

min(a, b) == IF a <= b THEN a ELSE b

(* ------------------------------ Range ---------------------------------- *)

(* Mutants of in_range: the destination not rebased on source_start; the   *)
(* source domain taken as closed at its end.                               *)
in_range_not_rebased(rng, src) ==
    IF src >= rng.source_start /\ src < rng.source_start + rng.range_len
    THEN Some(rng.dest_start + src)
    ELSE None

in_range_closed_end(rng, src) ==
    IF src >= rng.source_start /\ src <= rng.source_start + rng.range_len
    THEN Some(rng.dest_start + (src - rng.source_start))
    ELSE None

in_range(rng, src) ==
    IF src >= rng.source_start /\ src < rng.source_start + rng.range_len
    THEN Some(rng.dest_start + (src - rng.source_start))
    ELSE None

(* Range::parse of a line "dest source len", already split into numbers.   *)
Range_parse(nums) ==
    [source_start |-> nums[2], dest_start |-> nums[1], range_len |-> nums[3]]

(* ------------------------------ AlMap ---------------------------------- *)

(* AlMap::parse: one Range per line, in the order of the lines.            *)
AlMap_parse(lines) == [i \in 1..Len(lines) |-> Range_parse(lines[i])]

RECURSIVE convert_from(_, _, _)
convert_from(ranges, i, src) ==
    IF i > Len(ranges) THEN src
    ELSE IF in_range(ranges[i], src) # None THEN in_range(ranges[i], src)[1]
    ELSE convert_from(ranges, i + 1, src)

convert(m, src) == convert_from(m, 1, src)

(* One iteration of `for rng in &self.ranges` in AlMap::convert: Some(dest) *)
(* returns dest, None continues with the next range.                       *)
ConvertStep ==
    /\ pc = "convert"
    /\ idx <= Len(map)
    /\ IF in_range(map[idx], source) # None
       THEN /\ dest' = in_range(map[idx], source)
            /\ pc' = "converted"
            /\ idx' = idx
       ELSE /\ idx' = idx + 1
            /\ UNCHANGED <<pc, dest>>
    /\ UNCHANGED <<alm, stage, map, answer, source, ranges_vars, main_vars, other_days>>

(* The loop ends without a match: `return source`.                         *)
ConvertEnd ==
    /\ pc = "convert"
    /\ idx > Len(map)
    /\ dest' = Some(source)
    /\ pc' = "converted"
    /\ UNCHANGED <<alm, stage, map, answer, source, idx, ranges_vars, main_vars, other_days>>

(* --------------------------- Almanac::map_ranges ------------------------ *)

overlap_start(src, translation) == max(src[1], translation.source_start)

overlap_end(src, translation) ==
    min(src[1] + src[2], translation.source_start + translation.range_len)

(* The for loop over map.ranges with its break: the index of the first     *)
(* translation that overlaps src, 0 when the loop ends without a break     *)
(* (overlap_found stays false).                                            *)
RECURSIVE scan_from(_, _, _)
scan_from(ranges, i, src) ==
    IF i > Len(ranges) THEN 0
    ELSE IF overlap_start(src, ranges[i]) < overlap_end(src, ranges[i]) THEN i
    ELSE scan_from(ranges, i + 1, src)

(* Mutant of scan: the last overlapping translation wins.                  *)
scan_last(m, src) ==
    IF \E i \in DOMAIN m : overlap_start(src, m[i]) < overlap_end(src, m[i])
    THEN CHOOSE i \in DOMAIN m :
            /\ overlap_start(src, m[i]) < overlap_end(src, m[i])
            /\ \A j \in DOMAIN m :
                  overlap_start(src, m[j]) < overlap_end(src, m[j]) => j <= i
    ELSE 0

scan(m, src) == scan_from(m, 1, src)

(* Mutants of translated: the length measured from the start of src; the  *)
(* start not rebased on source_start.                                      *)
translated_len_from_src(src, translation) ==
    << overlap_start(src, translation) - translation.source_start + translation.dest_start,
       overlap_end(src, translation) - src[1] >>

translated_not_rebased(src, translation) ==
    << overlap_start(src, translation) + translation.dest_start,
       overlap_end(src, translation) - overlap_start(src, translation) >>

(* The interval pushed onto final_ranges for an overlap.                   *)
translated(src, translation) ==
    << overlap_start(src, translation) - translation.source_start + translation.dest_start,
       overlap_end(src, translation) - overlap_start(src, translation) >>

(* Mutants of leftovers: the part before the overlap is forgotten; the     *)
(* comparisons are not strict, so that empty leftovers are pushed; the     *)
(* part after the overlap is pushed from the start of the overlap.         *)
leftovers_after_only(src, translation) ==
    IF overlap_end(src, translation) < src[1] + src[2]
    THEN << <<overlap_end(src, translation), (src[1] + src[2]) - overlap_end(src, translation)>> >>
    ELSE << >>

leftovers_not_strict(src, translation) ==
    (IF src[1] <= overlap_start(src, translation)
     THEN << <<src[1], overlap_start(src, translation) - src[1]>> >>
     ELSE << >>)
    \o
    (IF overlap_end(src, translation) <= src[1] + src[2]
     THEN << <<overlap_end(src, translation), (src[1] + src[2]) - overlap_end(src, translation)>> >>
     ELSE << >>)

leftovers_from_overlap(src, translation) ==
    (IF src[1] < overlap_start(src, translation)
     THEN << <<src[1], overlap_start(src, translation) - src[1]>> >>
     ELSE << >>)
    \o
    (IF overlap_end(src, translation) < src[1] + src[2]
     THEN << <<overlap_start(src, translation), (src[1] + src[2]) - overlap_start(src, translation)>> >>
     ELSE << >>)

(* Mutant of leftovers: the part after the overlap is forgotten.           *)
leftovers_before_only(src, translation) ==
    IF src[1] < overlap_start(src, translation)
    THEN << <<src[1], overlap_start(src, translation) - src[1]>> >>
    ELSE << >>

(* The leftovers pushed back onto init_ranges, in push order.              *)
leftovers(src, translation) ==
    (IF src[1] < overlap_start(src, translation)
     THEN << <<src[1], overlap_start(src, translation) - src[1]>> >>
     ELSE << >>)
    \o
    (IF overlap_end(src, translation) < src[1] + src[2]
     THEN << <<overlap_end(src, translation), (src[1] + src[2]) - overlap_end(src, translation)>> >>
     ELSE << >>)

(* One iteration of `while let Some(src_rng) = init_ranges.pop()`.         *)
Iterate ==
    /\ pc = "loop"
    /\ init_ranges # << >>
    /\ LET popped == init_ranges[Len(init_ranges)]
           rest   == SubSeq(init_ranges, 1, Len(init_ranges) - 1)
           h      == scan(map, popped)
       IN /\ src_rng' = popped
          /\ hit' = h
          /\ IF h # 0
             THEN /\ final_ranges' = Append(final_ranges, translated(popped, map[h]))
                  /\ init_ranges' = rest \o leftovers(popped, map[h])
             ELSE /\ final_ranges' = Append(final_ranges, popped)
                  /\ init_ranges' = rest
    /\ UNCHANGED <<alm, pc, stage, map, input, ret, answer, convert_vars, main_vars, other_days>>

(* Mutant of Return: the drained work list is returned.                    *)
Return_init_ranges ==
    /\ pc = "loop"
    /\ init_ranges = << >>
    /\ pc' = "returned"
    /\ ret' = init_ranges
    /\ UNCHANGED <<alm, stage, map, input, init_ranges, final_ranges, src_rng, hit, answer, convert_vars, main_vars, other_days>>

(* pop() returns None: the loop ends and final_ranges is returned.         *)
Return ==
    /\ pc = "loop"
    /\ init_ranges = << >>
    /\ pc' = "returned"
    /\ ret' = final_ranges
    /\ UNCHANGED <<alm, stage, map, input, init_ranges, final_ranges, src_rng, hit, answer, convert_vars, main_vars, other_days>>

(* ------------------------------ Almanac -------------------------------- *)

(* Almanac::parse once the lines are split into tables: the tables fill    *)
(* the fields in the order they are popped from the front of the queue.    *)
Almanac_parse(seeds, maps) ==
    [init_seeds  |-> seeds,
     seed_soil   |-> maps[1],
     soil_fert   |-> maps[2],
     fert_water  |-> maps[3],
     water_light |-> maps[4],
     light_temp  |-> maps[5],
     temp_humid  |-> maps[6],
     humid_loc   |-> maps[7]]

NumStages == 7

get_conversion(a, seed) ==
    LET soil  == convert(a.seed_soil, seed)
        fert  == convert(a.soil_fert, soil)
        water == convert(a.fert_water, fert)
        light == convert(a.water_light, water)
        temp  == convert(a.light_temp, light)
        humid == convert(a.temp_humid, temp)
    IN convert(a.humid_loc, humid)

(* Mutant of chunks2: the pair is read as (chunk[1], chunk[0]).            *)
chunks2_swapped(seeds) == [i \in 1..(Len(seeds) \div 2) |-> <<seeds[2 * i], seeds[2 * i - 1]>>]

(* init_seeds.chunks(2) mapped to (chunk[0], chunk[1]).                    *)
chunks2(seeds) == [i \in 1..(Len(seeds) \div 2) |-> <<seeds[2 * i - 1], seeds[2 * i]>>]

(* Mutant of min_by_key: the key is the length x.1.                        *)
RECURSIVE min_by_len_from(_, _, _)
min_by_len_from(ranges, i, best) ==
    IF i > Len(ranges) THEN best
    ELSE min_by_len_from(ranges, i + 1,
                         IF ranges[i][2] < best[2] THEN ranges[i] ELSE best)

min_by_key_len(ranges) ==
    IF ranges = << >> THEN None ELSE Some(min_by_len_from(ranges, 2, ranges[1]))

(* Mutant of min_by_key: max_by_key, the last element with the greatest    *)
(* start.                                                                  *)
RECURSIVE max_by_key_from(_, _, _)
max_by_key_from(ranges, i, best) ==
    IF i > Len(ranges) THEN best
    ELSE max_by_key_from(ranges, i + 1,
                         IF ranges[i][1] >= best[1] THEN ranges[i] ELSE best)

max_by_key(ranges) ==
    IF ranges = << >> THEN None ELSE Some(max_by_key_from(ranges, 2, ranges[1]))

(* iter().min_by_key(|x| x.0).copied(): the first element with the least   *)
(* start, None for an empty list.                                          *)
RECURSIVE min_by_key_from(_, _, _)
min_by_key_from(ranges, i, best) ==
    IF i > Len(ranges) THEN best
    ELSE min_by_key_from(ranges, i + 1,
                         IF ranges[i][1] < best[1] THEN ranges[i] ELSE best)

min_by_key(ranges) ==
    IF ranges = << >> THEN None ELSE Some(min_by_key_from(ranges, 2, ranges[1]))

(* Mutant of stage_map: the second call is given seed_soil again.          *)
stage_map_repeated(a, k) ==
    CASE k = 1 -> a.seed_soil
      [] k = 2 -> a.seed_soil
      [] k = 3 -> a.fert_water
      [] k = 4 -> a.water_light
      [] k = 5 -> a.light_temp
      [] k = 6 -> a.temp_humid
      [] k = 7 -> a.humid_loc

(* The map passed to the k-th call of map_ranges in part2.                 *)
stage_map(a, k) ==
    CASE k = 1 -> a.seed_soil
      [] k = 2 -> a.soil_fert
      [] k = 3 -> a.fert_water
      [] k = 4 -> a.water_light
      [] k = 5 -> a.light_temp
      [] k = 6 -> a.temp_humid
      [] k = 7 -> a.humid_loc

(* part2 up to its first call of map_ranges; chunk[1] panics on a chunk    *)
(* of one element (an odd number of seeds).                                *)
Part2Start ==
    /\ pc = "part2"
    /\ IF Len(alm.init_seeds) % 2 = 1
       THEN /\ pc' = "panic"
            /\ UNCHANGED <<stage, map, input, init_ranges, final_ranges>>
       ELSE /\ pc' = "loop"
            /\ stage' = 1
            /\ map' = stage_map(alm, 1)
            /\ input' = chunks2(alm.init_seeds)
            /\ init_ranges' = chunks2(alm.init_seeds)
            /\ final_ranges' = << >>
    /\ src_rng' = None
    /\ hit' = 0
    /\ UNCHANGED <<alm, ret, answer, convert_vars, main_vars, other_days>>

(* init_ranges = <result of call k>; then call k + 1 with it.              *)
Part2Next ==
    /\ pc = "returned"
    /\ stage < NumStages
    /\ pc' = "loop"
    /\ stage' = stage + 1
    /\ map' = stage_map(alm, stage + 1)
    /\ input' = ret
    /\ init_ranges' = ret
    /\ final_ranges' = << >>
    /\ src_rng' = None
    /\ hit' = 0
    /\ UNCHANGED <<alm, ret, answer, convert_vars, main_vars, other_days>>

(* init_ranges = <result of the last call>; the minimum is returned.       *)
Part2Min ==
    /\ pc = "returned"
    /\ stage = NumStages
    /\ pc' = "done"
    /\ init_ranges' = ret
    /\ answer' = min_by_key(ret)
    /\ UNCHANGED <<alm, stage, map, input, final_ranges, src_rng, hit, ret, convert_vars, main_vars, other_days>>

(* -------------------------------- main --------------------------------- *)

Ok == <<"Ok">>

Err(e) == <<"Err", e>>

(* Almanac::get_conversions: one conversion per number of the seed line.   *)
get_conversions(a) == [i \in 1..Len(a.init_seeds) |-> get_conversion(a, a.init_seeds[i])]

(* Mutant of iter_min: an empty list has the minimum 0.                    *)
iter_min_default(xs) ==
    IF xs = << >> THEN Some(0)
    ELSE Some(CHOOSE x \in {xs[i] : i \in DOMAIN xs} : \A i \in DOMAIN xs : x <= xs[i])

(* conversions.iter().min()                                                *)
iter_min(xs) ==
    IF xs = << >> THEN None
    ELSE Some(CHOOSE x \in {xs[i] : i \in DOMAIN xs} : \A i \in DOMAIN xs : x <= xs[i])

(* Almanac::parse(input)?: with no table at all the slice                  *)
(* &remaining_lines[1..] (or &lines[2..]) is out of range and panics; with *)
(* fewer than seven tables a pop_front() is None and InvalidInput is       *)
(* returned; otherwise the first seven tables fill the fields.             *)
MainParse ==
    /\ pc = "parse"
    /\ IF Len(text[1].tables) = 0
       THEN /\ pc' = "panic"
            /\ UNCHANGED <<alm, exit>>
       ELSE IF Len(text[1].tables) < NumStages
       THEN /\ pc' = "exit"
            /\ exit' = Err("InvalidInput")
            /\ UNCHANGED alm
       ELSE /\ pc' = "conversions"
            /\ alm' = Almanac_parse(text[1].seeds, text[1].tables)
            /\ UNCHANGED exit
    /\ UNCHANGED <<stage, map, answer, ranges_vars, convert_vars, text, conversions, stdout, other_days>>

(* let conversions = alm.get_conversions();                                *)
MainConversions ==
    /\ pc = "conversions"
    /\ conversions' = get_conversions(alm)
    /\ pc' = "part1"
    /\ UNCHANGED <<alm, stage, map, answer, ranges_vars, convert_vars, text, stdout, exit, other_days>>

(* println!("Part 1: {}", conversions.iter().min().ok_or(InvalidInput)?)   *)
MainPart1 ==
    /\ pc = "part1"
    /\ IF iter_min(conversions) = None
       THEN /\ pc' = "exit"
            /\ exit' = Err("InvalidInput")
            /\ UNCHANGED stdout
       ELSE /\ pc' = "part2"
            /\ stdout' = Append(stdout, <<"Part 1", iter_min(conversions)[1]>>)
            /\ UNCHANGED exit
    /\ UNCHANGED <<alm, stage, map, answer, ranges_vars, convert_vars, text, conversions, other_days>>

(* match alm.part2() { None => error message, Some(min_loc) => min_loc.0 } *)
(* and Ok(()).                                                             *)
MainPart2 ==
    /\ pc = "done"
    /\ text # None
    /\ stdout' = Append(stdout, IF answer = None
                                THEN <<"Error finding location for part 2!">>
                                ELSE <<"Part 2", answer[1][1]>>)
    /\ exit' = Ok
    /\ pc' = "exit"
    /\ UNCHANGED <<alm, stage, map, answer, ranges_vars, convert_vars, text, conversions, other_days>>

(* ------------------------------ inputs --------------------------------- *)

(* main's input text once split into the seed line and the blocks of rule  *)
(* lines, Some([seeds, tables]); None when a method is called on its own.  *)
NoText == None

Rules == [source_start : 0..MaxStart, dest_start : 0..MaxStart, range_len : 0..MaxLen]

Stages == UNION {[1..n -> Rules] : n \in 0..MaxRules}

Intervals == (0..MaxStart) \X (1..(MaxLen + 1))

EmptyMaps == [k \in 1..NumStages |-> << >>]

EmptyAlmanac == Almanac_parse(<< >>, EmptyMaps)

(* A direct call Almanac::map_ranges(vec![iv], &m).                        *)
InitMapRanges ==
    /\ alm = EmptyAlmanac
    /\ pc = "loop"
    /\ stage = 0
    /\ map \in Stages
    /\ \E iv \in Intervals : input = <<iv>> /\ init_ranges = <<iv>>
    /\ final_ranges = << >>
    /\ src_rng = None
    /\ hit = 0
    /\ ret = << >>
    /\ answer = None
    /\ source = 0
    /\ idx = 0
    /\ dest = None
    /\ text = NoText
    /\ conversions = << >>
    /\ stdout = << >>
    /\ exit = None
    /\ OtherDaysIdle

Values == 0..(MaxStart + MaxLen)

(* The tables and values of tests::test_in_range and tests::test_converter. *)
TestTables ==
    {AlMap_parse(<< <<52, 50, 48>> >>), AlMap_parse(<< <<50, 98, 2>>, <<52, 50, 48>> >>)}

TestValues == {79, 14, 55, 13}

(* A direct call m.convert(v).                                             *)
InitConvert ==
    /\ alm = EmptyAlmanac
    /\ pc = "convert"
    /\ stage = 0
    /\ \/ map \in Stages /\ source \in Values
       \/ map \in TestTables /\ source \in TestValues
    /\ input = << >>
    /\ init_ranges = << >>
    /\ final_ranges = << >>
    /\ src_rng = None
    /\ hit = 0
    /\ ret = << >>
    /\ answer = None
    /\ idx = 1
    /\ dest = None
    /\ text = NoText
    /\ conversions = << >>
    /\ stdout = << >>
    /\ exit = None
    /\ OtherDaysIdle

(* The operations of one mapping table, each called on its own.            *)
InitStage == InitMapRanges \/ InitConvert

NextStage == Iterate \/ Return \/ ConvertStep \/ ConvertEnd

SpecStage == InitStage /\ [][NextStage]_vars

(* The almanac of tests::test_parse_input.                                 *)
FixtureMaps ==
    << AlMap_parse(<< <<50, 98, 2>>, <<52, 50, 48>> >>),
       AlMap_parse(<< <<0, 15, 37>>, <<37, 52, 2>>, <<39, 0, 15>> >>),
       AlMap_parse(<< <<49, 53, 8>>, <<0, 11, 42>>, <<42, 0, 7>>, <<57, 7, 4>> >>),
       AlMap_parse(<< <<88, 18, 7>>, <<18, 25, 70>> >>),
       AlMap_parse(<< <<45, 77, 23>>, <<81, 45, 19>>, <<68, 64, 13>> >>),
       AlMap_parse(<< <<0, 69, 1>>, <<1, 0, 69>> >>),
       AlMap_parse(<< <<60, 56, 37>>, <<56, 93, 4>> >>) >>

FixtureSeeds == <<79, 14, 55, 13>>

FixtureStarts == {0, 13, 49, 55, 79, 97}

(* Seed lists tried on the fixture's tables: the fixture's own, no seeds,  *)
(* an odd number of seeds, every single pair over the tables' values and   *)
(* two pairs around the tables' boundaries.                                *)
FixtureSeedLists ==
    {FixtureSeeds, << >>, <<79>>, <<79, 14, 55>>, <<0, 100>>}
    \cup {<<s, n>> : s \in 0..99, n \in 1..(MaxLen + 1)}
    \cup {<<s1, len1, s2, len2>> : s1 \in FixtureStarts, s2 \in FixtureStarts,
                               len1 \in 1..(MaxLen + 1), len2 \in 1..(MaxLen + 1)}

(* Small almanacs: two adjacent one-rule tables, the other tables empty.   *)
SmallMaps ==
    {[k \in 1..NumStages |-> IF k = p THEN <<r1>> ELSE IF k = p + 1 THEN <<r2>> ELSE << >>] :
        p \in 1..(NumStages - 1), r1 \in Rules, r2 \in Rules}

SmallSeedLists == {<<iv[1], iv[2]>> : iv \in Intervals}

Almanacs ==
    {Almanac_parse(sd, FixtureMaps) : sd \in FixtureSeedLists}
    \cup {Almanac_parse(sd, EmptyMaps) : sd \in SmallSeedLists}
    \cup {Almanac_parse(sd, m) : sd \in SmallSeedLists, m \in SmallMaps}

(* alm.part2() on a parsed almanac.                                        *)
InitPart2 ==
    /\ alm \in Almanacs
    /\ pc = "part2"
    /\ stage = 0
    /\ map = << >>
    /\ input = << >>
    /\ init_ranges = << >>
    /\ final_ranges = << >>
    /\ src_rng = None
    /\ hit = 0
    /\ ret = << >>
    /\ answer = None
    /\ source = 0
    /\ idx = 0
    /\ dest = None
    /\ text = NoText
    /\ conversions = << >>
    /\ stdout = << >>
    /\ exit = None
    /\ OtherDaysIdle

(* Texts given to main: the fixture's tables and seven empty tables with   *)
(* the seed lists above, and texts holding fewer or more than seven        *)
(* tables.                                                                 *)
Prefixes(maps) == {SubSeq(maps, 1, n) : n \in 0..Len(maps)}

MainTexts ==
    {[seeds |-> sd, tables |-> FixtureMaps] : sd \in FixtureSeedLists}
    \cup {[seeds |-> sd, tables |-> t] :
            sd \in SmallSeedLists \cup {<< >>, FixtureSeeds},
            t \in Prefixes(EmptyMaps) \cup Prefixes(FixtureMaps)
                  \cup {FixtureMaps \o << << >> >>}}

(* main on an input text.                                                  *)
InitMain ==
    /\ text \in {Some(t) : t \in MainTexts}
    /\ alm = EmptyAlmanac
    /\ pc = "parse"
    /\ stage = 0
    /\ map = << >>
    /\ input = << >>
    /\ init_ranges = << >>
    /\ final_ranges = << >>
    /\ src_rng = None
    /\ hit = 0
    /\ ret = << >>
    /\ answer = None
    /\ source = 0
    /\ idx = 0
    /\ dest = None
    /\ conversions = << >>
    /\ stdout = << >>
    /\ exit = None
    /\ OtherDaysIdle

(* The program, and part2 called on its own.                               *)
InitProgram == InitMain \/ InitPart2

NextProgram ==
    \/ MainParse \/ MainConversions \/ MainPart1 \/ MainPart2
    \/ Part2Start \/ Iterate \/ Return \/ Part2Next \/ Part2Min

SpecProgram == InitProgram /\ [][NextProgram]_vars

NextPart2 == Part2Start \/ Iterate \/ Return \/ Part2Next \/ Part2Min

SpecPart2 == InitPart2 /\ [][NextPart2]_vars

(* part2 is one sequential computation: whatever step is enabled is taken. *)
SpecPart2Fair == SpecPart2 /\ WF_vars(NextPart2)

(* ============================ day 7: Camel Cards ======================= *)
(* src/day7/src/main.rs.  A &str is the sequence of its chars, a Hand is   *)
(* a record [cards, hand_type, bid], a HandType its variant's name, a      *)
(* HashMap<char, usize> a function from the chars it holds to their        *)
(* counts.  The order in which a HashMap is iterated is not fixed by the   *)
(* program: HandType::new is given that order as a sequence of the keys.   *)

(* Day 5 at rest while another day runs.                                   *)
AlmanacIdle ==
    /\ alm = EmptyAlmanac
    /\ stage = 0
    /\ map = << >>
    /\ input = << >>
    /\ init_ranges = << >>
    /\ final_ranges = << >>
    /\ src_rng = None
    /\ hit = 0
    /\ ret = << >>
    /\ answer = None
    /\ source = 0
    /\ idx = 0
    /\ dest = None
    /\ text = NoText
    /\ conversions = << >>
    /\ stdout = << >>
    /\ exit = None

RECURSIVE chunk_from(_, _, _)
chunk_from(str, i, m) ==
    IF i > Len(str) THEN m
    ELSE LET c == str[i]
         IN  IF c \in DOMAIN m
             THEN chunk_from(str, i + 1, [m EXCEPT ![c] = @ + 1])
             ELSE chunk_from(str, i + 1,
                             [k \in DOMAIN m \cup {c} |-> IF k = c THEN 1 ELSE m[k]])

chunk_string(str) == chunk_from(str, 1, << >>)

(* The orders in which the entries of m can be iterated.                   *)
RECURSIVE orders_of(_)
orders_of(keys) ==
    IF keys = {} THEN {<< >>}
    ELSE UNION {{<<k>> \o o : o \in orders_of(keys \ {k})} : k \in keys}

iteration_orders(m) == orders_of(DOMAIN m)

(* m.values().collect() under the iteration order o.                       *)
values(m, o) == [i \in 1..Len(o) |-> m[o[i]]]

(* match v.get(i) { Some(v) => v, None => &&0 }                            *)
get_or_zero(vs, i) == IF i + 1 <= Len(vs) THEN vs[i + 1] ELSE 0

HandType_new_first_value(card, o) ==
    LET m  == chunk_string(card)
        vs == values(m, o)
    IN  CASE Len(vs) = 1 -> "FiveOfAKind"
          [] Len(vs) = 2 ->
                LET candidate == get_or_zero(vs, 0)
                IN  IF candidate = 4 \/ candidate = 1
                    THEN "FourOfAKind" ELSE "FullHouse"
          [] Len(vs) = 3 ->
                IF get_or_zero(vs, 0) = 2 THEN "TwoPair" ELSE "ThreeOfAKind"
          [] Len(vs) = 4 -> "OnePair"
          [] OTHER -> "HighCard"

HandType_new(card, o) ==
    LET m  == chunk_string(card)
        vs == values(m, o)
    IN  CASE Len(vs) = 1 -> "FiveOfAKind"
          [] Len(vs) = 2 ->
                LET candidate == get_or_zero(vs, 0)
                IN  IF candidate = 4 \/ candidate = 1
                    THEN "FourOfAKind" ELSE "FullHouse"
          [] Len(vs) = 3 ->
                LET first  == get_or_zero(vs, 0)
                    second == get_or_zero(vs, 1)
                    third  == get_or_zero(vs, 2)
                IN  IF first = 2 \/ second = 2 \/ third = 2
                    THEN "TwoPair" ELSE "ThreeOfAKind"
          [] Len(vs) = 4 -> "OnePair"
          [] OTHER -> "HighCard"

card_value(t) ==
    CASE t = "FiveOfAKind"  -> 6
      [] t = "FourOfAKind"  -> 5
      [] t = "FullHouse"    -> 4
      [] t = "ThreeOfAKind" -> 3
      [] t = "TwoPair"      -> 2
      [] t = "OnePair"      -> 1
      [] t = "HighCard"     -> 0

(* Ord::cmp of two integers.                                               *)
int_cmp(a, b) == IF a < b THEN "Less" ELSE IF a > b THEN "Greater" ELSE "Equal"

HandType_cmp(self, other) == int_cmp(card_value(self), card_value(other))

Hand_parse(line, o) ==
    [cards |-> line.cards, hand_type |-> HandType_new(line.cards, o), bid |-> line.bid]

with_joker_two_pair_full_house(h) ==
    LET chunks == chunk_string(h.cards)
    IN  IF "J" \notin DOMAIN chunks THEN h
        ELSE [h EXCEPT !.hand_type =
                CASE @ = "FiveOfAKind"  -> "FiveOfAKind"
                  [] @ = "FourOfAKind"  -> "FiveOfAKind"
                  [] @ = "FullHouse"    -> "FiveOfAKind"
                  [] @ = "ThreeOfAKind" -> "FourOfAKind"
                  [] @ = "TwoPair"      -> "FullHouse"
                  [] @ = "OnePair"      -> "ThreeOfAKind"
                  [] @ = "HighCard"     -> "OnePair"]

with_joker(h) ==
    LET chunks == chunk_string(h.cards)
    IN  IF "J" \notin DOMAIN chunks THEN h
        ELSE LET num_jokers == chunks["J"]
             IN  [h EXCEPT !.hand_type =
                    CASE @ = "FiveOfAKind"  -> "FiveOfAKind"
                      [] @ = "FourOfAKind"  -> "FiveOfAKind"
                      [] @ = "FullHouse"    -> "FiveOfAKind"
                      [] @ = "ThreeOfAKind" -> "FourOfAKind"
                      [] @ = "TwoPair"      ->
                            IF num_jokers = 2 THEN "FourOfAKind" ELSE "FullHouse"
                      [] @ = "OnePair"      -> "ThreeOfAKind"
                      [] @ = "HighCard"     -> "OnePair"]

char_order == <<"J", "2", "3", "4", "5", "6", "7", "8", "9", "T", "Q", "K", "A">>

(* char_order.iter().position(|&p| p == c), counted from 1.                *)
position(c) ==
    IF \E i \in DOMAIN char_order : char_order[i] = c
    THEN Some(CHOOSE i \in DOMAIN char_order :
                 char_order[i] = c /\ \A j \in 1..(i - 1) : char_order[j] # c)
    ELSE None

RECURSIVE cmp_cards(_, _, _)
cmp_cards(scards, ocards, i) ==
    IF i > min(Len(scards), Len(ocards)) THEN "Equal"
    ELSE IF scards[i] = ocards[i] THEN cmp_cards(scards, ocards, i + 1)
    ELSE LET scind == position(scards[i])
             ocind == position(ocards[i])
         IN  IF scind = None THEN "Less"
             ELSE IF ocind = None THEN "Greater"
             ELSE int_cmp(scind[1], ocind[1])

cmp_cards_only(self, other) == cmp_cards(self.cards, other.cards, 1)

cmp(self, other) ==
    IF HandType_cmp(self.hand_type, other.hand_type) # "Equal"
    THEN HandType_cmp(self.hand_type, other.hand_type)
    ELSE cmp_cards(self.cards, other.cards, 1)

(* self.cards.sort(): the stable sort of the standard library, which on a  *)
(* short slice inserts each element in turn, moving it left while it is    *)
(* less than its predecessor.                                              *)
RECURSIVE insert_tail(_, _)
insert_tail(s, h) ==
    IF s = << >> \/ cmp(h, s[Len(s)]) # "Less" THEN Append(s, h)
    ELSE Append(insert_tail(SubSeq(s, 1, Len(s) - 1), h), s[Len(s)])

RECURSIVE sort_from(_, _, _)
sort_from(cards, i, acc) ==
    IF i > Len(cards) THEN acc ELSE sort_from(cards, i + 1, insert_tail(acc, cards[i]))

sort(cards) == sort_from(cards, 1, << >>)

RECURSIVE winnings_from(_, _)
winnings_from(cards, rank) ==
    IF rank >= Len(cards) THEN 0
    ELSE (rank + 1) * cards[rank + 1].bid + winnings_from(cards, rank + 1)

total_winnings(cards) == winnings_from(cards, 0)

not_camel == <<almanac_vars, network_vars, maze_vars, trace_vars, race_vars, sky_vars, gear_vars, oasis_vars>>

(* One round of many0(preceded(multispace0, Hand::parse)).                 *)
HandParse ==
    /\ pc = "camel_parse"
    /\ Len(camel_cards) < Len(camel_input)
    /\ LET line == camel_input[Len(camel_cards) + 1]
           m    == chunk_string(line.cards)
       IN  \E o \in iteration_orders(m) :
              /\ m_values' = values(m, o)
              /\ camel_cards' = Append(camel_cards, Hand_parse(line, o))
    /\ UNCHANGED <<pc, camel_input, jk, p2, not_camel>>

(* main: camel_cards.with_joker() on the parsed cards.                     *)
CamelWithJoker ==
    /\ pc = "camel_parse"
    /\ Len(camel_cards) = Len(camel_input)
    /\ pc' = "with_joker"
    /\ jk' = 0
    /\ UNCHANGED <<camel_input, camel_cards, m_values, p2, not_camel>>

(* for c in self.cards.iter_mut() { c.with_joker(); }                      *)
JokerStep ==
    /\ pc = "with_joker"
    /\ jk < Len(camel_cards)
    /\ camel_cards' = [camel_cards EXCEPT ![jk + 1] = with_joker(@)]
    /\ jk' = jk + 1
    /\ UNCHANGED <<pc, camel_input, m_values, p2, not_camel>>

(* self.cards.sort(); self.total_winnings()                                *)
CamelWinnings ==
    /\ pc = "with_joker"
    /\ jk = Len(camel_cards)
    /\ camel_cards' = sort(camel_cards)
    /\ p2' = Some(total_winnings(sort(camel_cards)))
    /\ pc' = "camel_done"
    /\ UNCHANGED <<camel_input, m_values, jk, not_camel>>

(* tests::test_card_sorting: camel_cards.cards.sort() right after parse.   *)
TestCardSorting ==
    /\ pc = "camel_parse"
    /\ Len(camel_cards) = Len(camel_input)
    /\ camel_cards' = sort(camel_cards)
    /\ pc' = "test_sorted"
    /\ UNCHANGED <<camel_input, m_values, jk, p2, not_camel>>

(* The hands of tests::test_hand_type and of tests::test_card_sorting.     *)
TestHands ==
    { <<"A", "A", "A", "A", "A">>, <<"A", "A", "8", "A", "A">>,
      <<"2", "3", "3", "3", "2">>, <<"T", "T", "T", "9", "8">>,
      <<"2", "3", "4", "3", "2">>, <<"A", "2", "3", "A", "4">>,
      <<"2", "3", "4", "5", "6">>,
      <<"3", "2", "T", "3", "K">>, <<"K", "T", "J", "J", "T">>,
      <<"K", "K", "6", "7", "7">>, <<"T", "5", "5", "J", "5">>,
      <<"Q", "Q", "Q", "J", "A">> }

HandLen == Len(<<"A", "A", "A", "A", "A">>)

(* Every hand over the first n labels of char_order.                       *)
HandsOver(n) == [1..HandLen -> {char_order[i] : i \in 1..n}]

PairHands == TestHands \cup HandsOver(MaxPairLabels)

(* The hands of jokers and twos.                                           *)
JokerTwoHands == [1..HandLen -> {"J", "2"}]

(* Inputs of one hand over MaxLabels labels, and of two hands: one of the  *)
(* test hands or a hand over MaxPairLabels labels, followed by a test hand *)
(* or a hand of jokers and twos.                                           *)
CamelInputs ==
    {<< [cards |-> c, bid |-> Len(c)] >> : c \in HandsOver(MaxLabels) \cup TestHands}
    \cup {<< [cards |-> c, bid |-> Len(c)], [cards |-> d, bid |-> Len(c) + Len(d)] >> :
             c \in PairHands, d \in TestHands \cup JokerTwoHands}

InitCamel ==
    /\ camel_input \in CamelInputs
    /\ camel_cards = << >>
    /\ m_values = << >>
    /\ jk = 0
    /\ p2 = None
    /\ pc = "camel_parse"
    /\ AlmanacIdle
    /\ OasisIdle
    /\ GearIdle
    /\ SkyIdle
    /\ RaceIdle
    /\ TraceIdle
    /\ NetworkIdle
    /\ MazeIdle

NextCamel == HandParse \/ CamelWithJoker \/ JokerStep \/ CamelWinnings \/ TestCardSorting

SpecCamel == InitCamel /\ [][NextCamel]_vars

(* ============================ day 8: part 2 ============================ *)
(* src/day8/src/part2.rs.  A location is the sequence of its chars, a Step *)
(* is "Left" or "Right", a Map is a record [steps, mapping] whose mapping  *)
(* is a function from the locations it holds to pairs <<left, right>>.     *)

ends_with(loc, c) == Len(loc) > 0 /\ loc[Len(loc)] = c

AAA == <<"A", "A", "A">>

get_next_loc(m, loc, step) ==
    IF loc \notin DOMAIN m.mapping THEN AAA
    ELSE IF step = "Left" THEN m.mapping[loc][1] ELSE m.mapping[loc][2]

(* starting_positions: the keys ending in 'A', pushed in the order in      *)
(* which self.mapping.keys() yields them; the program does not fix that    *)
(* order, so every order of those keys is a possible result.               *)
starting_positions(m) == orders_of({loc \in DOMAIN m.mapping : ends_with(loc, "A")})

(* Vec::get: Some(&v[i]) for an index below the length, None otherwise.    *)
Vec_get(v, i) == IF i < Len(v) THEN Some(v[i + 1]) ELSE None

(* Mutant of Navigator_next: the counter is used as the index as it is.    *)
Navigator_next_no_wrap(m, c) == Vec_get(m.steps, c)

(* Navigator::next: the value returned when the counter is c.              *)
Navigator_next(m, c) == Vec_get(m.steps, c % Len(m.steps))

(* next_pos.retain(|x| !x.ends_with('Z'))                                  *)
retain(next_pos) == SelectSeq(next_pos, LAMBDA x : ~ends_with(x, "Z"))

RECURSIVE gcd(_, _)
gcd(a, b) == IF b = 0 THEN a ELSE gcd(b, a % b)

(* num::integer::lcm                                                       *)
lcm(a, b) == IF a = 0 /\ b = 0 THEN 0 ELSE a * (b \div gcd(a, b))

RECURSIVE fold_lcm(_, _, _)
fold_lcm(ds, i, acc) == IF i > Len(ds) THEN acc ELSE fold_lcm(ds, i + 1, lcm(acc, ds[i]))

not_network == <<almanac_vars, camel_vars, maze_vars, trace_vars, race_vars, sky_vars, gear_vars, oasis_vars>>

(* let mut positions = map.starting_positions(); steps = 0; distances = [] *)
StartingPositions ==
    /\ pc = "net_start"
    /\ positions' \in starting_positions(network)
    /\ steps' = 0
    /\ distances' = << >>
    /\ curr' = 0
    /\ pc' = "net_walk"
    /\ UNCHANGED <<network, nav_ret, p2_lcm, not_network>>

(* Mutant of WalkStep: a round in which walks finish pushes one distance,  *)
(* however many finished.                                                  *)
WalkStep_single_push ==
    /\ pc = "net_walk"
    /\ steps < MaxSteps
    /\ IF Len(network.steps) = 0
       THEN /\ pc' = "panic"
            /\ UNCHANGED <<positions, steps, distances, curr, nav_ret>>
       ELSE LET item     == Navigator_next(network, curr)
                next_pos == [i \in 1..Len(positions) |->
                                get_next_loc(network, positions[i], item[1])]
                kept     == retain(next_pos)
            IN  /\ curr' = curr + 1
                /\ nav_ret' = item
                /\ IF item = None
                   THEN /\ pc' = "net_fold"
                        /\ UNCHANGED <<positions, steps, distances>>
                   ELSE /\ steps' = steps + 1
                        /\ distances' = IF Len(kept) < Len(positions)
                                        THEN Append(distances, steps + 1) ELSE distances
                        /\ positions' = kept
                        /\ pc' = IF Len(kept) = 0 THEN "net_fold" ELSE "net_walk"
    /\ UNCHANGED <<network, p2_lcm, not_network>>

(* One round of `for step in map.iter()`: the loop ends when next()        *)
(* returns None or at the break.  With no steps the remainder by           *)
(* steps.len() panics.                                                     *)
WalkStep ==
    /\ pc = "net_walk"
    /\ steps < MaxSteps
    /\ IF Len(network.steps) = 0
       THEN /\ pc' = "panic"
            /\ UNCHANGED <<positions, steps, distances, curr, nav_ret>>
       ELSE LET item     == Navigator_next(network, curr)
                next_pos == [i \in 1..Len(positions) |->
                                get_next_loc(network, positions[i], item[1])]
                kept     == retain(next_pos)
            IN  /\ curr' = curr + 1
                /\ nav_ret' = item
                /\ IF item = None
                   THEN /\ pc' = "net_fold"
                        /\ UNCHANGED <<positions, steps, distances>>
                   ELSE /\ steps' = steps + 1
                        /\ distances' = distances \o
                               [i \in 1..(Len(positions) - Len(kept)) |-> steps + 1]
                        /\ positions' = kept
                        /\ pc' = IF Len(kept) = 0 THEN "net_fold" ELSE "net_walk"
    /\ UNCHANGED <<network, p2_lcm, not_network>>

(* let p2 = distances.iter().fold(1_u64, |acc, x| lcm(acc, *x))            *)
FoldLcm ==
    /\ pc = "net_fold"
    /\ p2_lcm' = Some(fold_lcm(distances, 1, 1))
    /\ pc' = "net_done"
    /\ UNCHANGED <<network, positions, steps, distances, curr, nav_ret, not_network>>

NodeNames ==
    << <<"1", "1", "A">>, <<"2", "2", "A">>, <<"1", "1", "Z">>, <<"2", "2", "Z">>,
       <<"1", "1", "B">>, <<"2", "2", "B">> >>

Nodes == {NodeNames[i] : i \in 1..MaxNodes}

StepLists == {<<"Left">>, <<"Left", "Right">>}

(* Two routes that cycle with periods 2 and 3, side exits leading to XXX.  *)
CyclicRoutes ==
    LET n(a, b, c) == <<a, b, c>>
        XXX == n("X", "X", "X")
    IN  [steps |-> <<"Left", "Right">>,
         mapping |->
            (n("1","1","A") :> <<n("1","1","B"), XXX>>) @@
            (n("1","1","B") :> <<XXX, n("1","1","Z")>>) @@
            (n("1","1","Z") :> <<n("1","1","B"), XXX>>) @@
            (n("2","2","A") :> <<n("2","2","B"), XXX>>) @@
            (n("2","2","B") :> <<n("2","2","C"), n("2","2","C")>>) @@
            (n("2","2","C") :> <<n("2","2","Z"), n("2","2","Z")>>) @@
            (n("2","2","Z") :> <<n("2","2","B"), n("2","2","B")>>) @@
            (XXX :> <<XXX, XXX>>)]

(* A start whose exits are not in the mapping, and a Map without steps.    *)
DanglingExit ==
    [steps |-> <<"Right">>,
     mapping |-> (<<"1", "1", "A">> :> << <<"9", "9", "Z">>, <<"9", "9", "X">> >>)]

NoSteps ==
    [steps |-> << >>,
     mapping |-> (<<"1", "1", "A">> :> << <<"1", "1", "A">>, <<"1", "1", "A">> >>)]

Networks ==
    {[steps |-> st, mapping |-> mp] : st \in StepLists, mp \in [Nodes -> Nodes \X Nodes]}
    \cup {CyclicRoutes, DanglingExit, NoSteps}

InitNetwork ==
    /\ network \in Networks
    /\ positions = << >>
    /\ steps = 0
    /\ distances = << >>
    /\ curr = 0
    /\ nav_ret = None
    /\ p2_lcm = None
    /\ pc = "net_start"
    /\ AlmanacIdle
    /\ OasisIdle
    /\ GearIdle
    /\ SkyIdle
    /\ RaceIdle
    /\ TraceIdle
    /\ CamelIdle
    /\ MazeIdle

NextNetwork == StartingPositions \/ WalkStep \/ FoldLcm

SpecNetwork == InitNetwork /\ [][NextNetwork]_vars

(* ============================ day 10: pipe maze ======================== *)
(* src/day10/src/main.rs.  A Coordinate is a pair <<row, col>>, a Node a   *)
(* record [start, ground, coord, neighbors], a Graph the sequence of its   *)
(* verts, the input a sequence of rows of chars.                           *)

Coordinate_new(row, col) == <<row, col>>

(* The neighbors Graph::parse gives the char v at (row, col).              *)
neighbors_of(v, row, col) ==
    CASE v = "|" -> <<Coordinate_new(row + 1, col), Coordinate_new(row - 1, col)>>
      [] v = "-" -> <<Coordinate_new(row, col + 1), Coordinate_new(row, col - 1)>>
      [] v = "L" -> <<Coordinate_new(row - 1, col), Coordinate_new(row, col + 1)>>
      [] v = "J" -> <<Coordinate_new(row - 1, col), Coordinate_new(row, col - 1)>>
      [] v = "7" -> <<Coordinate_new(row + 1, col), Coordinate_new(row, col - 1)>>
      [] v = "F" -> <<Coordinate_new(row + 1, col), Coordinate_new(row, col + 1)>>
      [] OTHER   -> <<Coordinate_new(0, 0), Coordinate_new(0, 0)>>

Node_of(v, row, col) ==
    [start |-> v = "S", ground |-> v = ".",
     coord |-> Coordinate_new(row, col), neighbors |-> neighbors_of(v, row, col)]

RECURSIVE parse_rows(_, _, _)
parse_rows(rows, r, verts) ==
    IF r > Len(rows) THEN verts
    ELSE parse_rows(rows, r + 1,
            verts \o [c \in 1..Len(rows[r]) |-> Node_of(rows[r][c], r - 1, c - 1)])

Graph_parse(rows) == [verts |-> parse_rows(rows, 1, << >>)]

(* self.verts.iter().find(p), given the indices of the verts that satisfy  *)
(* p: the first of them.                                                   *)
first_of(verts, found) ==
    IF found = {} THEN None
    ELSE Some(verts[CHOOSE i \in found : \A j \in found : i <= j])

find_start(g) == first_of(g.verts, {i \in DOMAIN g.verts : g.verts[i].start = TRUE})

find_node(g, r, c) ==
    first_of(g.verts,
             {i \in DOMAIN g.verts : g.verts[i].coord[1] = r /\ g.verts[i].coord[2] = c})

(* The candidates get_start_neighbors collects, in the order of its loop.  *)
RECURSIVE neighs_from(_, _, _, _)
neighs_from(g, start, offs, neighs) ==
    IF offs = << >> THEN neighs
    ELSE LET i         == Head(offs)
             candidate == find_node(g, start.coord[1] + i[1], start.coord[2] + i[2])
         IN  IF candidate = None
             THEN neighs_from(g, start, Tail(offs), neighs)
             ELSE IF candidate[1].neighbors[1] = start.coord
                     \/ candidate[1].neighbors[2] = start.coord
             THEN neighs_from(g, start, Tail(offs), Append(neighs, candidate[1]))
             ELSE neighs_from(g, start, Tail(offs), neighs)

get_start_neighbors(g) ==
    neighs_from(g, find_start(g)[1], << <<0, 1>>, <<0, -1>>, <<1, 0>>, <<-1, 0>> >>, << >>)

next_step_first_neighbor(g, n, last) ==
    LET c == n.neighbors[1] IN find_node(g, c[1], c[2])

(* The neighbor of n that is not the last step.                            *)
next_step(g, n, last) ==
    IF n.neighbors[1] = last.coord
    THEN LET c == n.neighbors[2] IN find_node(g, c[1], c[2])
    ELSE LET c == n.neighbors[1] IN find_node(g, c[1], c[2])

(* distances.insert(k, d)                                                  *)
insert(m, k, d) == [x \in DOMAIN m \cup {k} |-> IF x = k THEN d ELSE m[x]]

not_maze == <<almanac_vars, camel_vars, network_vars, trace_vars, race_vars, sky_vars, gear_vars, oasis_vars>>

(* max_distance_from_start up to its loop: unwrap of find_start and the    *)
(* assertion of get_start_neighbors panic.                                 *)
MaxDistanceStart ==
    /\ pc = "maze_start"
    /\ IF find_start(graph) = None \/ Len(get_start_neighbors(graph)) # 2
       THEN /\ pc' = "panic"
            /\ UNCHANGED <<dist_map, n1, n2, n1_last, n2_last, n1_dist, n2_dist>>
       ELSE LET start  == find_start(graph)[1]
                neighs == get_start_neighbors(graph)
            IN  /\ n1' = neighs[1]
                /\ n2' = neighs[2]
                /\ n1_last' = start
                /\ n2_last' = start
                /\ n1_dist' = 1
                /\ n2_dist' = 1
                /\ dist_map' = insert(insert(insert(<< >>, start.coord, 0),
                                             neighs[1].coord, 1), neighs[2].coord, 1)
                /\ pc' = "maze_loop"
    /\ UNCHANGED <<graph, max_dist, not_maze>>

(* One round of the loop of max_distance_from_start.                       *)
LoopStep ==
    /\ pc = "maze_loop"
    /\ LET n1_next == next_step(graph, n1, n1_last)
           n2_next == next_step(graph, n2, n2_last)
       IN  IF n1_next = None \/ n2_next = None
           THEN /\ pc' = "panic"
                /\ UNCHANGED <<dist_map, n1, n2, n1_last, n2_last, n1_dist, n2_dist, max_dist>>
           ELSE /\ n1_dist' = n1_dist + 1
                /\ n2_dist' = n2_dist + 1
                /\ IF n1_next[1].coord \in DOMAIN dist_map
                   THEN /\ dist_map' = insert(dist_map, n1_next[1].coord, n1_dist + 1)
                        /\ max_dist' = Some(n1_dist + 1)
                        /\ pc' = "maze_done"
                        /\ UNCHANGED <<n1, n2, n1_last, n2_last>>
                   ELSE IF n2_next[1].coord \in
                              DOMAIN insert(dist_map, n1_next[1].coord, n1_dist + 1)
                   THEN /\ dist_map' = insert(insert(dist_map, n1_next[1].coord, n1_dist + 1),
                                              n2_next[1].coord, n2_dist + 1)
                        /\ max_dist' = Some(n2_dist + 1)
                        /\ pc' = "maze_done"
                        /\ UNCHANGED <<n1, n2, n1_last, n2_last>>
                   ELSE /\ dist_map' = insert(insert(dist_map, n1_next[1].coord, n1_dist + 1),
                                              n2_next[1].coord, n2_dist + 1)
                        /\ n1_last' = n1
                        /\ n1' = n1_next[1]
                        /\ n2_last' = n2
                        /\ n2' = n2_next[1]
                        /\ pc' = "maze_loop"
                        /\ UNCHANGED max_dist
    /\ UNCHANGED <<graph, not_maze>>

(* Input grids of MaxRows x MaxCols tiles.  The pipes are the boundary of  *)
(* a region of unit cells whose corners are the tiles: a cell <<i, j>> has *)
(* the corner tiles (i, j), (i, j+1), (i+1, j), (i+1, j+1), and two        *)
(* adjacent tiles are joined by a pipe when exactly one of the two cells   *)
(* beside the edge between them is in the region.  Regions in which a tile *)
(* would be joined to four others are left out, so the pipes form one or   *)
(* more closed loops.                                                      *)
Cells == (0..(MaxRows - 2)) \X (0..(MaxCols - 2))

Tiles == (0..(MaxRows - 1)) \X (0..(MaxCols - 1))

East(q, t) == (<<t[1] - 1, t[2]>> \in q) # (<<t[1], t[2]>> \in q)

South(q, t) == (<<t[1], t[2] - 1>> \in q) # (<<t[1], t[2]>> \in q)

Openings(q, t) ==
    {d \in {"N", "S", "E", "W"} :
        \/ d = "E" /\ East(q, t)
        \/ d = "W" /\ East(q, <<t[1], t[2] - 1>>)
        \/ d = "S" /\ South(q, t)
        \/ d = "N" /\ South(q, <<t[1] - 1, t[2]>>)}

Regions ==
    {q \in SUBSET Cells :
        q # {} /\ \A t \in Tiles : Cardinality(Openings(q, t)) \in {0, 2}}

PipeChar(ds) ==
    CASE ds = {"N", "S"} -> "|"
      [] ds = {"E", "W"} -> "-"
      [] ds = {"N", "E"} -> "L"
      [] ds = {"N", "W"} -> "J"
      [] ds = {"S", "W"} -> "7"
      [] ds = {"S", "E"} -> "F"
      [] OTHER -> "."

Pipes == {"|", "-", "L", "J", "7", "F"}

Adjacent(a, b) ==
    \/ a[1] = b[1] /\ (a[2] = b[2] + 1 \/ b[2] = a[2] + 1)
    \/ a[2] = b[2] /\ (a[1] = b[1] + 1 \/ b[1] = a[1] + 1)

(* The rows of the grid of region q with S on tile s and the chars of      *)
(* extra, a function from tiles to chars, put in place of the region's.    *)
GridOf(q, s, extra) ==
    [r \in 1..MaxRows |->
        [c \in 1..MaxCols |->
            LET t == <<r - 1, c - 1>>
            IN  IF t = s THEN "S"
                ELSE IF t \in DOMAIN extra THEN extra[t]
                ELSE PipeChar(Openings(q, t))]]

(* S on a tile of a loop; at most one ground tile beside S holds a pipe    *)
(* that is not part of the region's loops.                                 *)
Grids ==
    UNION {UNION {
        {GridOf(q, s, << >>)} \cup
        {GridOf(q, s, t :> p) :
            t \in {u \in Tiles : Adjacent(u, s) /\ Openings(q, u) = {}}, p \in Pipes} :
        s \in {u \in Tiles : Openings(q, u) # {}}} :
        q \in Regions}

(* A loop of 16 tiles among pipes that are not connected to it.            *)
CrowdedGrid ==
    << <<"7", "-", "F", "7", "-">>,
       <<".", "F", "J", "|", "7">>,
       <<"S", "J", "L", "L", "7">>,
       <<"|", "F", "-", "-", "J">>,
       <<"L", "J", ".", "L", "J">> >>

(* A grid without S.                                                       *)
NoStartGrid == << <<"F", "7">>, <<"L", "J">> >>

InitMaze ==
    /\ graph \in {Graph_parse(rows) : rows \in Grids \cup {CrowdedGrid, NoStartGrid}}
    /\ dist_map = << >>
    /\ n1 = None
    /\ n2 = None
    /\ n1_last = None
    /\ n2_last = None
    /\ n1_dist = 0
    /\ n2_dist = 0
    /\ max_dist = None
    /\ pc = "maze_start"
    /\ AlmanacIdle
    /\ OasisIdle
    /\ GearIdle
    /\ SkyIdle
    /\ RaceIdle
    /\ TraceIdle
    /\ CamelIdle
    /\ NetworkIdle

NextMaze == MaxDistanceStart \/ LoopStep

SpecMaze == InitMaze /\ [][NextMaze]_vars

(* ====================== day 10, part 2: enclosed tiles ================= *)
(* src/day10/src/part2.rs.  A Node is a record [sym, neighbors], the map   *)
(* of a Graph the sequence of its rows of Nodes, main_loop an Option of a  *)
(* set of coordinates <<row, col>>.                                        *)

compute_neighbors(sym) ==
    CASE sym = "|" -> << <<1, 0>>, <<-1, 0>> >>
      [] sym = "-" -> << <<0, 1>>, <<0, -1>> >>
      [] sym = "L" -> << <<-1, 0>>, <<0, 1>> >>
      [] sym = "J" -> << <<-1, 0>>, <<0, -1>> >>
      [] sym = "7" -> << <<1, 0>>, <<0, -1>> >>
      [] sym = "F" -> << <<1, 0>>, <<0, 1>> >>
      [] OTHER     -> << <<0, 0>>, <<0, 0>> >>

(* The Node Graph::parse pushes for the char v at (row, col).              *)
Node_part2(v, row, col) ==
    LET neighs == compute_neighbors(v)
    IN  [sym |-> v,
         neighbors |-> << <<row + neighs[1][1], col + neighs[1][2]>>,
                          <<row + neighs[2][1], col + neighs[2][2]>> >>]

(* (srow, scol): the place of the last 'S' the loops of Graph::parse meet, *)
(* (0, 0) when there is none.                                              *)
start_coord_of(lines) ==
    LET found == {t \in UNION {{<<r, c>> : c \in 1..Len(lines[r])} : r \in 1..Len(lines)} :
                      lines[t[1]][t[2]] = "S"}
        final == CHOOSE t \in found :
                     \A u \in found : u[1] < t[1] \/ (u[1] = t[1] /\ u[2] <= t[2])
    IN  IF found = {} THEN <<0, 0>> ELSE <<final[1] - 1, final[2] - 1>>

Graph_parse_part2(lines) ==
    [start_coord |-> start_coord_of(lines),
     rows        |-> Len(lines),
     cols        |-> IF Len(lines) > 0 THEN Len(lines[1]) ELSE 0,
     map         |-> [r \in 1..Len(lines) |->
                        [c \in 1..Len(lines[r]) |-> Node_part2(lines[r][c], r - 1, c - 1)]],
     main_loop   |-> None]

(* self.map[r as usize][c as usize]                                        *)
map_at(g, t) == g.map[t[1] + 1][t[2] + 1]

in_bounds(g, t) == ~(t[1] < 0 \/ t[1] >= g.rows \/ t[2] < 0 \/ t[2] >= g.cols)

(* The first loop of find_main_loop: the tiles beside s with a neighbor    *)
(* pointer equal to s, in the order of the offsets.                        *)
RECURSIVE main_loop_neighs(_, _, _, _)
main_loop_neighs(g, s, offs, neighs) ==
    IF offs = << >> THEN neighs
    ELSE LET i  == Head(offs)
             ct == <<s[1] + i[1], s[2] + i[2]>>
         IN  IF ~in_bounds(g, ct)
             THEN main_loop_neighs(g, s, Tail(offs), neighs)
             ELSE IF map_at(g, ct).neighbors[1] = s \/ map_at(g, ct).neighbors[2] = s
             THEN main_loop_neighs(g, s, Tail(offs), Append(neighs, ct))
             ELSE main_loop_neighs(g, s, Tail(offs), neighs)

(* sym != 'L' && sym != '7'                                                *)
counts_as_cross(sym) == sym # "L" /\ sym # "7"

(* The while loop of ray_trace from (r2, c2).                              *)
RECURSIVE crosses_from(_, _, _, _, _)
crosses_from(g, main_loop, r2, c2, crosses) ==
    IF ~(r2 < g.rows /\ c2 < g.cols) THEN crosses
    ELSE crosses_from(g, main_loop, r2 + 1, c2 + 1,
            IF <<r2, c2>> \in main_loop /\ counts_as_cross(map_at(g, <<r2, c2>>).sym)
            THEN crosses + 1 ELSE crosses)

ray_trace(g) ==
    IF g.main_loop = None THEN 0
    ELSE LET main_loop == g.main_loop[1]
         IN  Cardinality({t \in (0..(g.rows - 1)) \X (0..(g.cols - 1)) :
                 /\ t \notin main_loop
                 /\ crosses_from(g, main_loop, t[1], t[2], 0) % 2 = 1})

not_trace == <<almanac_vars, camel_vars, network_vars, maze_vars, race_vars, sky_vars, gear_vars, oasis_vars>>

(* find_main_loop up to its walk: the assertion panics unless two tiles    *)
(* lead to the start.                                                      *)
FindMainLoop ==
    /\ pc = "trace_start"
    /\ LET s      == trace_graph.start_coord
           neighs == main_loop_neighs(trace_graph, s,
                         << <<0, 1>>, <<0, -1>>, <<1, 0>>, <<-1, 0>> >>, << >>)
       IN  IF Len(neighs) # 2
           THEN /\ pc' = "panic"
                /\ UNCHANGED <<trace_graph, path, path_last, cur>>
           ELSE /\ trace_graph' = [trace_graph EXCEPT !.map[s[1] + 1][s[2] + 1] =
                                      [sym |-> "S", neighbors |-> <<neighs[1], neighs[2]>>]]
                /\ path' = {s}
                /\ path_last' = s
                /\ cur' = neighs[1]
                /\ pc' = "trace_walk"
    /\ UNCHANGED <<inside, not_trace>>

(* One round of the walk of find_main_loop; the index of self.map panics   *)
(* for a coordinate outside the grid.                                      *)
PathStep ==
    /\ pc = "trace_walk"
    /\ IF cur \in path
       THEN /\ trace_graph' = [trace_graph EXCEPT !.main_loop = Some(path)]
            /\ pc' = "trace_ray"
            /\ UNCHANGED <<path, path_last, cur>>
       ELSE /\ path' = path \cup {cur}
            /\ IF ~in_bounds(trace_graph, cur)
               THEN /\ pc' = "panic"
                    /\ UNCHANGED <<path_last, cur>>
               ELSE LET cur_neigh == map_at(trace_graph, cur).neighbors
                        nxt == IF cur_neigh[1] = path_last THEN cur_neigh[2] ELSE cur_neigh[1]
                    IN  /\ path_last' = cur
                        /\ cur' = nxt
                        /\ pc' = "trace_walk"
            /\ UNCHANGED trace_graph
    /\ UNCHANGED <<inside, not_trace>>

(* println!("{:?}", graph.ray_trace())                                     *)
RayTrace ==
    /\ pc = "trace_ray"
    /\ inside' = Some(ray_trace(trace_graph))
    /\ pc' = "trace_done"
    /\ UNCHANGED <<trace_graph, path, path_last, cur, not_trace>>

InitTrace ==
    /\ trace_graph \in {Graph_parse_part2(lines) : lines \in Grids \cup {CrowdedGrid, NoStartGrid}}
    /\ path = {}
    /\ path_last = << >>
    /\ cur = << >>
    /\ inside = None
    /\ pc = "trace_start"
    /\ AlmanacIdle
    /\ OasisIdle
    /\ GearIdle
    /\ SkyIdle
    /\ RaceIdle
    /\ CamelIdle
    /\ NetworkIdle
    /\ MazeIdle

NextTrace == FindMainLoop \/ PathStep \/ RayTrace

SpecTrace == InitTrace /\ [][NextTrace]_vars

(* ============================ day 6: boat races ======================== *)
(* src/day6/src/main.rs.  A Race and a BigRace are records [total_time,    *)
(* record_dist]; a String is the sequence of its chars.                    *)

Digits == <<"0", "1", "2", "3", "4", "5", "6", "7", "8", "9">>

(* i32::to_string                                                          *)
RECURSIVE to_string(_)
to_string(n) ==
    IF n < 0 THEN <<"-">> \o to_string(0 - n)
    ELSE IF n < 10 THEN <<Digits[n + 1]>>
    ELSE to_string(n \div 10) \o <<Digits[(n % 10) + 1]>>

digit_value(c) == CHOOSE d \in 0..9 : Digits[d + 1] = c

(* str::parse::<u64>: Err for the empty string and for a char that is not  *)
(* a digit.                                                                *)
RECURSIVE parse_digits(_, _, _)
parse_digits(str, i, acc) ==
    IF i > Len(str) THEN Some(acc)
    ELSE IF \A d \in 1..10 : Digits[d] # str[i] THEN None
    ELSE parse_digits(str, i + 1, acc * 10 + digit_value(str[i]))

parse_u64(str) == IF str = << >> THEN None ELSE parse_digits(str, 1, 0)

(* fold(String::new(), |acc, x| acc + &field(x).to_string())               *)
RECURSIVE fold_strings(_, _, _, _)
fold_strings(rs, field, i, acc) ==
    IF i > Len(rs) THEN acc
    ELSE fold_strings(rs, field, i + 1, acc \o to_string(rs[i][field]))

BigRace_new(total_time, record_dist) ==
    [total_time |-> total_time, record_dist |-> record_dist]

beats(r, ms_held) == ((r.total_time - ms_held) * ms_held) > r.record_dist

(* BigRace::naive: the length of the collected Vec.                        *)
naive(r) == Cardinality({ms_held \in 0..r.total_time : beats(r, ms_held)})

(* BigRace::smart: first and second stay 0 when their loops end without a  *)
(* break.                                                                  *)
smart(r) ==
    LET wins   == {s \in 0..r.total_time : beats(r, s)}
        first  == IF wins = {} THEN 0 ELSE CHOOSE s \in wins : \A u \in wins : s <= u
        second == IF wins = {} THEN 0 ELSE CHOOSE s \in wins : \A u \in wins : s >= u
    IN  second - first + 1

not_race == <<almanac_vars, camel_vars, network_vars, maze_vars, trace_vars, sky_vars, gear_vars, oasis_vars>>

(* remove_kerning up to BigRace::new; a parse error is returned with `?`.  *)
RemoveKerning ==
    /\ pc = "kern_start"
    /\ LET new_time == parse_u64(fold_strings(races, "total_time", 1, << >>))
           new_dist == parse_u64(fold_strings(races, "record_dist", 1, << >>))
       IN  IF new_time = None \/ new_dist = None
           THEN /\ pc' = "kern_err"
                /\ UNCHANGED big_race
           ELSE /\ big_race' = Some(BigRace_new(new_time[1], new_dist[1]))
                /\ pc' = "kern_naive"
    /\ UNCHANGED <<races, naive_ret, smart_ret, not_race>>

(* let naive = r.naive();                                                  *)
Naive ==
    /\ pc = "kern_naive"
    /\ naive_ret' = Some(naive(big_race[1]))
    /\ pc' = "kern_smart"
    /\ UNCHANGED <<races, big_race, smart_ret, not_race>>

(* let smart = r.smart(); Ok(smart)                                        *)
Smart ==
    /\ pc = "kern_smart"
    /\ smart_ret' = Some(smart(big_race[1]))
    /\ pc' = "kern_done"
    /\ UNCHANGED <<races, big_race, naive_ret, not_race>>

Race_new(total_time, record_dist) ==
    [total_time |-> total_time, record_dist |-> record_dist]

(* The races IslandRaces::parse zips from the two lines of numbers: up to  *)
(* MaxRaces races, and one race with a negative time.                      *)
RaceLists ==
    LET rs == {Race_new(t, d) : t \in 0..MaxMs, d \in 0..MaxMs}
    IN  UNION {[1..n -> rs] : n \in 0..MaxRaces} \cup {<<Race_new(-1, 0)>>}

InitRace ==
    /\ races \in RaceLists
    /\ big_race = None
    /\ naive_ret = None
    /\ smart_ret = None
    /\ pc = "kern_start"
    /\ AlmanacIdle
    /\ OasisIdle
    /\ GearIdle
    /\ SkyIdle
    /\ CamelIdle
    /\ NetworkIdle
    /\ MazeIdle
    /\ TraceIdle

NextRace == RemoveKerning \/ Naive \/ Smart

SpecRace == InitRace /\ [][NextRace]_vars

(* ============================ day 11: galaxies ========================= *)
(* src/day11/src/main.rs and src/day11/src/part1-slow.rs.  The input is    *)
(* the sequence of its lines of chars; a galaxy is a pair <<col, row>>,    *)
(* the Graph of main.rs a record [row_adds, col_adds, galaxies].           *)

EXPANSION_AMT == 999999

contains(line, c) == \E i \in DOMAIN line : line[i] = c

(* The columns of map without a '#'; the width is that of map[0].          *)
col_adds_of(chart) ==
    {col \in 0..(Len(chart[1]) - 1) : \A row \in 1..Len(chart) : chart[row][col + 1] # "#"}

(* The coordinates (col, row) of the '#' of map, row by row; widths gives  *)
(* the bound of the loop over the columns of each row.                     *)
RECURSIVE galaxies_from(_, _, _, _, _)
galaxies_from(chart, widths, row, col, found) ==
    IF row >= Len(chart) THEN found
    ELSE IF col >= widths[row + 1] THEN galaxies_from(chart, widths, row + 1, 0, found)
    ELSE galaxies_from(chart, widths, row, col + 1,
            IF chart[row + 1][col + 1] = "#" THEN Append(found, <<col, row>>) ELSE found)

Graph_parse_day11(lines) ==
    [row_adds |-> {y \in 0..(Len(lines) - 1) : ~contains(lines[y + 1], "#")},
     col_adds |-> col_adds_of(lines),
     galaxies |-> galaxies_from(lines, [r \in 1..Len(lines) |-> Len(lines[r])], 0, 0, << >>)]

(* for i in lo..hi { sum += 1; if adds.contains(&i) { sum += amt } }       *)
RECURSIVE range_sum(_, _, _, _, _)
range_sum(adds, amt, i, hi, sum) ==
    IF i >= hi THEN sum
    ELSE range_sum(adds, amt, i + 1, hi, sum + 1 + (IF i \in adds THEN amt ELSE 0))

(* Mutant of col_dist: the range is x1..x2 whatever the order.             *)
col_dist_unordered(g, amt, x1, x2) == range_sum(g.col_adds, amt, x1, x2, 0)

col_dist(g, amt, x1, x2) ==
    IF x1 > x2 THEN range_sum(g.col_adds, amt, x2, x1, 0)
    ELSE range_sum(g.col_adds, amt, x1, x2, 0)

row_dist(g, amt, y1, y2) ==
    IF y1 > y2 THEN range_sum(g.row_adds, amt, y2, y1, 0)
    ELSE range_sum(g.row_adds, amt, y1, y2, 0)

(* The two nested loops over galaxies and galaxies[galaxy + 1..]; dist is  *)
(* the distance the body computes for the galaxies i and j.                *)
RECURSIVE pairs_from(_, _, _, _, _)
pairs_from(n, dist, i, j, sum) ==
    IF i > n THEN sum
    ELSE IF j > n THEN pairs_from(n, dist, i + 1, i + 2, sum)
    ELSE pairs_from(n, dist, i, j + 1, sum + dist[i][j])

all_pairs_shortest_distance(g, amt) ==
    pairs_from(Len(g.galaxies),
               [i \in DOMAIN g.galaxies |-> [j \in DOMAIN g.galaxies |->
                   col_dist(g, amt, g.galaxies[i][1], g.galaxies[j][1])
                   + row_dist(g, amt, g.galaxies[i][2], g.galaxies[j][2])]],
               1, 2, 0)

(* part1-slow.rs: a line without '#' is pushed twice.                      *)
RECURSIVE double_rows(_, _, _)
double_rows(lines, i, chart) ==
    IF i > Len(lines) THEN chart
    ELSE double_rows(lines, i + 1,
            IF ~contains(lines[i], "#") THEN chart \o <<lines[i], lines[i]>>
            ELSE Append(chart, lines[i]))

(* part1-slow.rs: a char in a column of col_adds is pushed twice.          *)
RECURSIVE double_cols(_, _, _, _)
double_cols(row, adds, col, r) ==
    IF col >= Len(row) THEN r
    ELSE double_cols(row, adds, col + 1,
            IF col \in adds THEN r \o <<row[col + 1], row[col + 1]>>
            ELSE Append(r, row[col + 1]))

Graph_parse_slow(lines) ==
    LET chart        == double_rows(lines, 1, << >>)
        adds         == col_adds_of(chart)
        expanded_map == [i \in 1..Len(chart) |-> double_cols(chart[i], adds, 0, << >>)]
    IN  [map      |-> expanded_map,
         galaxies |-> galaxies_from(expanded_map,
                                    [r \in 1..Len(expanded_map) |-> Len(expanded_map[1])],
                                    0, 0, << >>)]

abs(x) == IF x < 0 THEN 0 - x ELSE x

all_pairs_shortest_distance_slow(g) ==
    pairs_from(Len(g.galaxies),
               [i \in DOMAIN g.galaxies |-> [j \in DOMAIN g.galaxies |->
                   abs(g.galaxies[i][1] - g.galaxies[j][1])
                   + abs(g.galaxies[i][2] - g.galaxies[j][2])]],
               1, 2, 0)

not_sky == <<almanac_vars, camel_vars, network_vars, maze_vars, trace_vars, race_vars, gear_vars, oasis_vars>>

(* let g = Graph::parse(&file); map[0] panics for an input without lines.  *)
GalaxyParse ==
    /\ pc = "sky_start"
    /\ IF Len(sky) = 0
       THEN pc' = "panic" /\ UNCHANGED galaxy
       ELSE galaxy' = Graph_parse_day11(sky) /\ pc' = "sky_pairs"
    /\ UNCHANGED <<sky, expansion, pairs_sum, slow_sum, not_sky>>

(* let p1 = g.all_pairs_shortest_distance();                               *)
AllPairs ==
    /\ pc = "sky_pairs"
    /\ pairs_sum' = Some(all_pairs_shortest_distance(galaxy, expansion))
    /\ pc' = "sky_slow"
    /\ UNCHANGED <<sky, expansion, galaxy, slow_sum, not_sky>>

(* part1-slow.rs on the same input: Graph::parse and the sum.              *)
SlowPairs ==
    /\ pc = "sky_slow"
    /\ slow_sum' = Some(all_pairs_shortest_distance_slow(Graph_parse_slow(sky)))
    /\ pc' = "sky_done"
    /\ UNCHANGED <<sky, expansion, galaxy, pairs_sum, not_sky>>

(* The image with a '#' on the tiles of gs.                                *)
SkyOf(gs) ==
    [r \in 1..MaxRows |-> [c \in 1..MaxCols |-> IF <<r - 1, c - 1>> \in gs THEN "#" ELSE "."]]

Skies == {SkyOf(gs) : gs \in {x \in SUBSET Tiles : Cardinality(x) <= MaxGalaxies}} \cup {<< >>}

InitSky ==
    /\ sky \in Skies
    /\ expansion \in {1, EXPANSION_AMT}
    /\ galaxy = << >>
    /\ pairs_sum = None
    /\ slow_sum = None
    /\ pc = "sky_start"
    /\ AlmanacIdle
    /\ OasisIdle
    /\ GearIdle
    /\ CamelIdle
    /\ NetworkIdle
    /\ MazeIdle
    /\ TraceIdle
    /\ RaceIdle

NextSky == GalaxyParse \/ AllPairs \/ SlowPairs

SpecSky == InitSky /\ [][NextSky]_vars

(* ============================ day 3: gears ============================= *)
(* src/day3/src/main.rs.  gears is a function from the coordinates         *)
(* <<row, col>> it holds to pairs <<a[0], a[1]>>.                          *)

remove(m, k) == [x \in DOMAIN m \ {k} |-> m[x]]

gear_insert(m, row, col, val) ==
    LET k == <<row, col>>
    IN  IF k \in DOMAIN m
        THEN IF m[k][2] # 0
             THEN remove(m, k)
             ELSE [m EXCEPT ![k] = <<m[k][1], val>>]
        ELSE insert(m, k, <<val, 0>>)

(* gears.values().map(|a| a[0] * a[1]).sum()                               *)
RECURSIVE sum_products(_, _)
sum_products(m, ks) ==
    IF ks = {} THEN 0
    ELSE LET k == CHOOSE x \in ks : TRUE
         IN  m[k][1] * m[k][2] + sum_products(m, ks \ {k})

not_gear == <<almanac_vars, camel_vars, network_vars, maze_vars, trace_vars, race_vars, sky_vars, oasis_vars>>

(* One call gear_insert(&mut gears, row, col, n.value) of the loop over    *)
(* the numbers.                                                            *)
GearInsert ==
    /\ pc = "gear_loop"
    /\ gk < Len(gear_input)
    /\ LET call == gear_input[gk + 1]
       IN  gears' = gear_insert(gears, call[1], call[2], call[3])
    /\ gk' = gk + 1
    /\ UNCHANGED <<pc, gear_input, gear_sum, not_gear>>

(* let gear_sum: i32 = gears.values().map(|a| a[0] * a[1]).sum();         *)
GearSum ==
    /\ pc = "gear_loop"
    /\ gk = Len(gear_input)
    /\ gear_sum' = Some(sum_products(gears, DOMAIN gears))
    /\ pc' = "gear_done"
    /\ UNCHANGED <<gear_input, gk, gears, not_gear>>

(* The '*' of the model and the values of the numbers beside them.  A '*'  *)
(* has eight tiles around it, which hold at most six numbers.              *)
Stars == {<<1, 1>>, <<1, 3>>}

PartValues == {2, 3}

GearCalls ==
    UNION {[1..n -> {<<st[1], st[2], val>> : st \in Stars, val \in PartValues}] :
              n \in 0..MaxCalls}

InitGear ==
    /\ gear_input \in GearCalls
    /\ gk = 0
    /\ gears = << >>
    /\ gear_sum = None
    /\ pc = "gear_loop"
    /\ AlmanacIdle
    /\ OasisIdle
    /\ CamelIdle
    /\ NetworkIdle
    /\ MazeIdle
    /\ TraceIdle
    /\ RaceIdle
    /\ SkyIdle

NextGear == GearInsert \/ GearSum

SpecGear == InitGear /\ [][NextGear]_vars

(* ====================== day 9: extrapolation =========================== *)

MaxSeq == 3

MaxVal == 1

(* An i64 of this part is a pair <<k, r>> that stands for k * 2^62 + r     *)
(* with r small, so that sums and differences are exact; i64 holds the     *)
(* values from -2 * 2^62 to 2 * 2^62 - 1.                                  *)
Zero == <<0, 0>>

in_i64(x) ==
    \/ x[1] \in -1..1
    \/ x[1] = 2 /\ x[2] < 0
    \/ x[1] = -2 /\ x[2] >= 0

(* The value of i64 that is congruent to x modulo 2^64.                    *)
wrapping(x) ==
    IF x[2] >= 0 THEN <<((x[1] + 2) % 4) - 2, x[2]>>
                 ELSE <<((x[1] + 1) % 4) - 1, x[2]>>

(* What an i64 operation with the exact result x gives: a build with       *)
(* overflow checks panics (None) when x leaves i64, one without wraps.     *)
arith(x, checks) ==
    IF in_i64(x) THEN Some(x)
    ELSE IF checks THEN None ELSE Some(wrapping(x))

i64_add(a, b, checks) == arith(<<a[1] + b[1], a[2] + b[2]>>, checks)

i64_sub(a, b, checks) == arith(<<a[1] - b[1], a[2] - b[2]>>, checks)

(* for i in 1..l.len() { let d = l[i] - l[i - 1]; ... diffs.push(d); }     *)
diffs_of(l, checks) == [i \in 1..(Len(l) - 1) |-> i64_sub(l[i + 1], l[i], checks)]

(* last_value + compute_result(diffs)                                      *)
part1_result(last_value, r, checks) == i64_add(last_value, r, checks)

part2_result_added(first_value, r, checks) == i64_add(first_value, r, checks)

(* first_value - compute_result(diffs)                                     *)
part2_result(first_value, r, checks) == i64_sub(first_value, r, checks)

not_oasis == <<almanac_vars, camel_vars, network_vars, maze_vars, trace_vars, race_vars, sky_vars, gear_vars>>

(* One call of part1's compute_result, up to its return or to the call it  *)
(* makes on diffs.  l[l.len() - 1] panics on an empty l.                   *)
Part1Call ==
    /\ pc = "oasis"
    /\ part1_pc = "call"
    /\ part1_calls' = part1_calls + 1
    /\ IF part1_l = << >>
       THEN /\ part1_pc' = "panic"
            /\ UNCHANGED <<part1_l, part1_stack, part1_ret>>
       ELSE LET last_value == part1_l[Len(part1_l)]
                ds == diffs_of(part1_l, overflow_checks)
            IN  IF \E i \in DOMAIN ds : ds[i] = None
                THEN /\ part1_pc' = "panic"
                     /\ UNCHANGED <<part1_l, part1_stack, part1_ret>>
                ELSE LET diffs == [i \in DOMAIN ds |-> ds[i][1]]
                         zeros == \A i \in DOMAIN diffs : diffs[i] = Zero
                     IN  IF zeros
                         THEN /\ part1_ret' = Some(last_value)
                              /\ part1_pc' = "return"
                              /\ UNCHANGED <<part1_l, part1_stack>>
                         ELSE /\ part1_stack' = Append(part1_stack, last_value)
                              /\ part1_l' = diffs
                              /\ UNCHANGED <<part1_pc, part1_ret>>
    /\ UNCHANGED <<pc, history, overflow_checks, part2_pc, part2_l, part2_stack,
                   part2_ret, part2_calls, not_oasis>>

(* A return of part1's compute_result: to the caller that adds its         *)
(* last_value, or to main.                                                 *)
Part1Return ==
    /\ pc = "oasis"
    /\ part1_pc = "return"
    /\ IF part1_stack = << >>
       THEN /\ part1_pc' = "done"
            /\ UNCHANGED <<part1_stack, part1_ret>>
       ELSE LET last_value == part1_stack[Len(part1_stack)]
                sum == part1_result(last_value, part1_ret[1], overflow_checks)
            IN  IF sum = None
                THEN /\ part1_pc' = "panic"
                     /\ UNCHANGED <<part1_stack, part1_ret>>
                ELSE /\ part1_ret' = sum
                     /\ part1_stack' = SubSeq(part1_stack, 1, Len(part1_stack) - 1)
                     /\ UNCHANGED part1_pc
    /\ UNCHANGED <<pc, history, overflow_checks, part1_l, part1_calls, part2_pc, part2_l,
                   part2_stack, part2_ret, part2_calls, not_oasis>>

(* One call of part2's compute_result.  l[0] panics on an empty l.         *)
Part2Call ==
    /\ pc = "oasis"
    /\ part1_pc \in {"done", "panic"}
    /\ part2_pc = "call"
    /\ part2_calls' = part2_calls + 1
    /\ IF part2_l = << >>
       THEN /\ part2_pc' = "panic"
            /\ UNCHANGED <<part2_l, part2_stack, part2_ret>>
       ELSE LET first_value == part2_l[1]
                ds == diffs_of(part2_l, overflow_checks)
            IN  IF \E i \in DOMAIN ds : ds[i] = None
                THEN /\ part2_pc' = "panic"
                     /\ UNCHANGED <<part2_l, part2_stack, part2_ret>>
                ELSE LET diffs == [i \in DOMAIN ds |-> ds[i][1]]
                         zeros == \A i \in DOMAIN diffs : diffs[i] = Zero
                     IN  IF zeros
                         THEN /\ part2_ret' = Some(first_value)
                              /\ part2_pc' = "return"
                              /\ UNCHANGED <<part2_l, part2_stack>>
                         ELSE /\ part2_stack' = Append(part2_stack, first_value)
                              /\ part2_l' = diffs
                              /\ UNCHANGED <<part2_pc, part2_ret>>
    /\ UNCHANGED <<pc, history, overflow_checks, part1_pc, part1_l, part1_stack,
                   part1_ret, part1_calls, not_oasis>>

(* A return of part2's compute_result: to the caller that subtracts it     *)
(* from its first_value, or to main.                                       *)
Part2Return ==
    /\ pc = "oasis"
    /\ part2_pc = "return"
    /\ IF part2_stack = << >>
       THEN /\ part2_pc' = "done"
            /\ UNCHANGED <<part2_stack, part2_ret>>
       ELSE LET first_value == part2_stack[Len(part2_stack)]
                diff == part2_result(first_value, part2_ret[1], overflow_checks)
            IN  IF diff = None
                THEN /\ part2_pc' = "panic"
                     /\ UNCHANGED <<part2_stack, part2_ret>>
                ELSE /\ part2_ret' = diff
                     /\ part2_stack' = SubSeq(part2_stack, 1, Len(part2_stack) - 1)
                     /\ UNCHANGED part2_pc
    /\ UNCHANGED <<pc, history, overflow_checks, part1_pc, part1_l, part1_stack, part1_ret,
                   part1_calls, part2_l, part2_calls, not_oasis>>

(* The readings of a history: small ones, and ones near -2^62.             *)
Readings == {<<k, r>> : k \in {-1, 0}, r \in -MaxVal..MaxVal}

Histories == UNION {[1..n -> Readings] : n \in 0..MaxSeq}

rev(l) == [i \in 1..Len(l) |-> l[Len(l) + 1 - i]]

(* part2 is given a history and part1 the same history backwards, in a     *)
(* build with or without overflow checks.                                  *)
InitOasis ==
    /\ history \in Histories
    /\ overflow_checks \in BOOLEAN
    /\ part1_pc = "call"
    /\ part1_l = rev(history)
    /\ part1_stack = << >>
    /\ part1_ret = None
    /\ part1_calls = 0
    /\ part2_pc = "call"
    /\ part2_l = history
    /\ part2_stack = << >>
    /\ part2_ret = None
    /\ part2_calls = 0
    /\ pc = "oasis"
    /\ AlmanacIdle
    /\ CamelIdle
    /\ NetworkIdle
    /\ MazeIdle
    /\ TraceIdle
    /\ RaceIdle
    /\ SkyIdle
    /\ GearIdle

NextOasis == Part1Call \/ Part1Return \/ Part2Call \/ Part2Return

SpecOasis == InitOasis /\ [][NextOasis]_vars

(* ====================== vocabulary of the properties =================== *)

(* The values an interval and a list of intervals cover.                   *)
PointsOf(iv) == {v \in iv[1]..(iv[1] + iv[2] - 1) : TRUE}

Points(rs) == UNION {PointsOf(rs[i]) : i \in DOMAIN rs}

(* How many intervals of rs cover v.                                       *)
CountIn(rs, v) == Cardinality({i \in DOMAIN rs : v \in PointsOf(rs[i])})

(* How many points of rs, counted per interval, the table m sends to v.    *)
ImageCount(rs, m, v) ==
    Cardinality({p \in (DOMAIN rs) \X Points(rs) :
                    p[2] \in PointsOf(rs[p[1]]) /\ convert(m, p[2]) = v})

RECURSIVE SumLen(_)
SumLen(rs) == IF rs = << >> THEN 0 ELSE rs[1][2] + SumLen(Tail(rs))

(* The half-open source domain of a rule, and the rule's offset.           *)
Domain(r) == {v \in r.source_start..(r.source_start + r.range_len - 1) : TRUE}

Offset(r) == r.dest_start - r.source_start

DisjointDomains(m) ==
    \A i \in DOMAIN m : \A j \in DOMAIN m : i # j => Domain(m[i]) \cap Domain(m[j]) = {}

Covered(m, v) == \E i \in DOMAIN m : v \in Domain(m[i])

(* The first rule, in stored order, whose domain contains v.               *)
FirstRule(m, v) == CHOOSE i \in DOMAIN m : v \in Domain(m[i]) /\ \A j \in 1..(i - 1) : v \notin Domain(m[j])

MinOf(S) == CHOOSE x \in S : \A y \in S : x <= y

(* The tables in the order the pipeline is to apply them.                  *)
TableOrder ==
    <<"seed_soil", "soil_fert", "fert_water", "water_light", "light_temp", "temp_humid",
      "humid_loc">>

(* ============================== claims ================================= *)

(* C1: for every table (source domains possibly overlapping) and every     *)
(* interval (s, n) with n > 0, the intervals returned by                   *)
(* map_ranges([(s, n)], table) cover, as a multiset, exactly the values    *)
(* convert(v) for s <= v < s + n.                                          *)
C1_SplitterAgreesWithConvert ==
    (pc = "returned" /\ Len(input) = 1) =>
        \A v \in Points(ret) \cup {convert(map, u) : u \in Points(input)} :
            CountIn(ret, v) = ImageCount(input, map, v)

(* C1 witness: a table of two rules with overlapping domains has split the *)
(* interval into three, the leftovers having been scanned again.           *)
C1_Witness ==
    /\ pc = "returned"
    /\ Len(input) = 1
    /\ Len(map) = 2
    /\ Domain(map[1]) \cap Domain(map[2]) # {}
    /\ Len(ret) = 3
    /\ hit = 2

(* C3: in a table with pairwise disjoint source domains, convert(v) is     *)
(* v + (R.dest_start - R.source_start) for every rule R and v in R's       *)
(* domain, in_range of R is Some of that value, and in_range of R is None  *)
(* for v outside R's half-open domain; on the rule "52 50 48" the values   *)
(* 79 and 55 become 81 and 57, and 14 and 13 are outside the domain.       *)
C3_ConvertAppliesOffset ==
    /\ (pc = "converted" /\ DisjointDomains(map)) =>
        \A i \in DOMAIN map :
            IF source \in Domain(map[i])
            THEN /\ dest = Some(source + Offset(map[i]))
                 /\ in_range(map[i], source) = Some(source + Offset(map[i]))
            ELSE in_range(map[i], source) = None
    /\ (pc = "converted" /\ map = AlMap_parse(<< <<52, 50, 48>> >>)) =>
          /\ source = 79 => (dest = Some(81) /\ in_range(map[1], 79) = Some(81))
          /\ source = 55 => (dest = Some(57) /\ in_range(map[1], 55) = Some(57))
          /\ source = 14 => (dest = Some(14) /\ in_range(map[1], 14) = None)
          /\ source = 13 => (dest = Some(13) /\ in_range(map[1], 13) = None)

(* C3 witness: convert returned through the second of two disjoint rules,  *)
(* whose offset is not zero.                                               *)
C3_Witness ==
    /\ pc = "converted"
    /\ DisjointDomains(map)
    /\ Len(map) = 2
    /\ idx = 2
    /\ source \in Domain(map[2])
    /\ Offset(map[2]) # 0
    /\ Domain(map[1]) # {}

(* C4: a value in the source domain of no rule is returned unchanged by    *)
(* convert, and map_ranges emits an interval that overlaps no rule         *)
(* unchanged; on the table "50 98 2", "52 50 48" convert leaves 14 and 13  *)
(* as they are.                                                            *)
C4_IdentityPassthrough ==
    /\ (pc = "converted" /\ ~Covered(map, source)) => dest = Some(source)
    /\ (pc = "converted" /\ map = AlMap_parse(<< <<50, 98, 2>>, <<52, 50, 48>> >>)) =>
          /\ source = 14 => dest = Some(14)
          /\ source = 13 => dest = Some(13)
          /\ source = 79 => dest = Some(81)
          /\ source = 55 => dest = Some(57)
    /\ (pc \in {"loop", "returned"} /\ src_rng # None
            /\ \A v \in PointsOf(src_rng) : ~Covered(map, v)) =>
        /\ hit = 0
        /\ final_ranges # << >>
        /\ final_ranges[Len(final_ranges)] = src_rng
    /\ (pc = "returned" /\ Len(input) = 1
            /\ \A v \in Points(input) : ~Covered(map, v)) => ret = input

(* C4 witness: an interval lying just beyond the end of a non-empty rule   *)
(* has been emitted as it was.                                             *)
C4_Witness ==
    /\ pc = "returned"
    /\ Len(input) = 1
    /\ \E i \in DOMAIN map :
          /\ map[i].range_len > 0
          /\ input[1][1] = map[i].source_start + map[i].range_len
          /\ Offset(map[i]) # 0
    /\ \A v \in Points(input) : ~Covered(map, v)
    /\ ret = input

(* C5: in map_ranges the lengths still in init_ranges plus the lengths     *)
(* already in final_ranges always sum to the total length of the input,    *)
(* so the returned lengths sum to the input lengths; the table             *)
(* [(50,98,2),(52,50,48)] applied to [0,100) returns total length 100.     *)
C5_LengthConservation ==
    /\ pc \in {"loop", "returned"} =>
          SumLen(init_ranges) + SumLen(final_ranges) = SumLen(input)
    /\ pc = "returned" => SumLen(ret) = SumLen(input)
    /\ (pc = "returned" /\ stage = 1 /\ alm = Almanac_parse(<<0, 100>>, FixtureMaps)) =>
          SumLen(ret) = 100 /\ Len(ret) = 3

(* C5 witness: the first fixture table has split [0,100) into three.       *)
C5_Witness ==
    /\ pc = "returned"
    /\ stage = 1
    /\ alm = Almanac_parse(<<0, 100>>, FixtureMaps)
    /\ input = << <<0, 100>> >>
    /\ Len(ret) = 3

(* C6 as stated: the intervals returned by map_ranges([S], table) are      *)
(* pairwise non-overlapping, for any table.                                *)
C6_OutputsNeverOverlap ==
    (pc = "returned" /\ stage = 0 /\ Len(input) = 1) =>
        \A v \in Points(ret) : CountIn(ret, v) = 1

InjectiveOn(m, S) == \A u \in S : \A w \in S : convert(m, u) = convert(m, w) => u = w

(* C6 amended: when the table converts no two values of S to the same      *)
(* value, the intervals returned by map_ranges([S], table) are pairwise    *)
(* non-overlapping.                                                        *)
C6_OutputsDisjointWhenInjective ==
    (pc = "returned" /\ stage = 0 /\ Len(input) = 1 /\ InjectiveOn(map, Points(input))) =>
        \A v \in Points(ret) : CountIn(ret, v) = 1

(* C6 witness: a one-to-one table has moved part of S and the call         *)
(* returned three intervals.                                               *)
C6_Witness ==
    /\ pc = "returned"
    /\ stage = 0
    /\ Len(input) = 1
    /\ InjectiveOn(map, Points(input))
    /\ Len(ret) = 3
    /\ \E u \in Points(input) : convert(map, u) # u

(* The value a point is sent to by the first rule containing it.           *)
FirstMatchImage(m, u) == IF Covered(m, u) THEN u + Offset(m[FirstRule(m, u)]) ELSE u

(* C8: convert translates a value lying in several domains with the first  *)
(* rule in stored order, and map_ranges translates every point of an       *)
(* interval with the offset of the first rule whose domain contains it.    *)
C8_FirstMatchWins ==
    /\ (pc = "converted" /\ Covered(map, source)) =>
          /\ dest = Some(source + Offset(map[FirstRule(map, source)]))
          /\ idx = FirstRule(map, source)
    /\ (pc \in {"loop", "returned"} /\ src_rng # None /\ hit # 0) =>
          LET T == PointsOf(src_rng) \cap Domain(map[hit])
          IN /\ T # {}
             /\ \A u \in T : FirstRule(map, u) = hit
             /\ final_ranges[Len(final_ranges)] = <<MinOf(T) + Offset(map[hit]), Cardinality(T)>>
    /\ (pc = "returned" /\ Len(input) = 1) =>
          \A v \in Points(ret) \cup {FirstMatchImage(map, u) : u \in Points(input)} :
              CountIn(ret, v) = Cardinality({u \in Points(input) : FirstMatchImage(map, u) = v})

(* C8 witness: the popped interval has points lying in the domains of both *)
(* rules, whose offsets differ, and the first rule translated them.        *)
C8_Witness ==
    /\ pc \in {"loop", "returned"}
    /\ src_rng # None
    /\ hit = 1
    /\ Len(map) = 2
    /\ PointsOf(src_rng) \cap Domain(map[1]) \cap Domain(map[2]) # {}
    /\ Offset(map[1]) # Offset(map[2])

(* C10: map_ranges([(s, n)], empty table) = [(s, n)], and applying the     *)
(* empty table again and again keeps returning [(s, n)].                   *)
C10_EmptyStageIsIdentity ==
    /\ (pc = "returned" /\ map = << >> /\ Len(input) = 1) => ret = input
    /\ (pc = "returned" /\ Len(alm.init_seeds) = 2
            /\ \A k \in 1..stage : alm[TableOrder[k]] = << >>) =>
          ret = << <<alm.init_seeds[1], alm.init_seeds[2]>> >>

(* C10 witness: the seventh call in a row with an empty table returned.    *)
C10_Witness ==
    /\ pc = "returned"
    /\ stage = NumStages
    /\ \A k \in 1..NumStages : alm[TableOrder[k]] = << >>
    /\ Len(alm.init_seeds) = 2
    /\ ret = << <<alm.init_seeds[1], alm.init_seeds[2]>> >>

ValidSeedRanges(seeds) ==
    /\ Len(seeds) > 0
    /\ Len(seeds) % 2 = 0
    /\ \A i \in 1..(Len(seeds) \div 2) : seeds[2 * i] > 0

SeedPoints(seeds) ==
    UNION {PointsOf(<<seeds[2 * i - 1], seeds[2 * i]>>) : i \in 1..(Len(seeds) \div 2)}

(* C2: for a non-empty even-length seed list with every length > 0, part2  *)
(* applies the seven tables in the order seed_soil, soil_fert, fert_water, *)
(* water_light, light_temp, temp_humid, humid_loc, each call taking the    *)
(* full list the previous call returned, and returns the smallest start    *)
(* of the final list, which is the least get_conversion(v) over the        *)
(* values v of the seed ranges.                                            *)
C2_Part2IsMinimumLocation ==
    ValidSeedRanges(alm.init_seeds) =>
        /\ (pc \in {"loop", "returned"}) => map = alm[TableOrder[stage]]
        /\ (pc = "loop" /\ stage = 1) =>
              input = [i \in 1..(Len(alm.init_seeds) \div 2) |->
                          <<alm.init_seeds[2 * i - 1], alm.init_seeds[2 * i]>>]
        /\ (pc = "loop" /\ stage > 1) => input = ret
        /\ pc = "done" =>
              /\ stage = 7
              /\ answer # None
              /\ \E i \in DOMAIN ret : answer[1] = ret[i]
              /\ \A i \in DOMAIN ret : answer[1][1] <= ret[i][1]
              /\ answer[1][1] = MinOf({get_conversion(alm, v) : v \in SeedPoints(alm.init_seeds)})

(* C2 witness: part2 returned for two seed ranges on tables that move the  *)
(* minimum away from the least seed.                                       *)
C2_Witness ==
    /\ pc = "done"
    /\ Len(alm.init_seeds) = 4
    /\ ValidSeedRanges(alm.init_seeds)
    /\ Len(ret) > 2
    /\ answer # None
    /\ answer[1][1] # MinOf(SeedPoints(alm.init_seeds))
    /\ answer[1][1] = MinOf({get_conversion(alm, v) : v \in SeedPoints(alm.init_seeds)})

(* C7: for every almanac and value v, get_conversion(v) is the start       *)
(* part2 returns when the seed list is the single pair (v, 1).             *)
C7_SingleValueAgreement ==
    (pc = "done" /\ Len(alm.init_seeds) = 2 /\ alm.init_seeds[2] = 1) =>
        /\ answer # None
        /\ answer[1][1] = get_conversion(alm, alm.init_seeds[1])

(* C7 witness: part2 returned for a pair (v, 1) whose value two tables     *)
(* in a row have moved.                                                    *)
C7_Witness ==
    /\ pc = "done"
    /\ Len(alm.init_seeds) = 2
    /\ alm.init_seeds[2] = 1
    /\ answer # None
    /\ answer[1][1] = get_conversion(alm, alm.init_seeds[1])
    /\ \E k \in 1..(NumStages - 1) :
          LET a == convert(alm[TableOrder[k]], alm.init_seeds[1])
          IN /\ a # alm.init_seeds[1]
             /\ convert(alm[TableOrder[k + 1]], a) # a

(* C9: on the almanac of test_parse_input, seeds 79 14 55 13, part2 works  *)
(* on the seed ranges [(79,14),(55,13)] and returns an interval starting   *)
(* at 46.                                                                  *)
C9_FixtureMinimumIs46 ==
    alm = Almanac_parse(FixtureSeeds, FixtureMaps) =>
        /\ (pc = "loop" /\ stage = 1) => input = << <<79, 14>>, <<55, 13>> >>
        /\ pc = "done" => (answer # None /\ answer[1][1] = 46)

(* C9 witness: part2 returned on the fixture.                              *)
C9_Witness ==
    /\ alm = Almanac_parse(FixtureSeeds, FixtureMaps)
    /\ pc = "done"
    /\ answer # None
    /\ answer[1][1] = 46

Part2ErrorMessage == <<"Error finding location for part 2!">>

Printed(line) == \E i \in DOMAIN stdout : stdout[i] = line

PrintedNumber == \E i \in DOMAIN stdout : Len(stdout[i]) = 2

(* C11 as stated: with no seeds part2 returns None, main prints the part-2 *)
(* error message, and the part-1 minimum yields InvalidInput.              *)
C11_EmptySeedsBothReports ==
    /\ (text = None /\ alm.init_seeds = << >> /\ pc = "done") => answer = None
    /\ (text # None /\ pc = "exit" /\ Len(text[1].tables) >= NumStages
            /\ text[1].seeds = << >>) =>
          /\ exit = Err("InvalidInput")
          /\ Printed(Part2ErrorMessage)

(* C11 amended: with no seeds part2, called on its own, returns None; main *)
(* returns InvalidInput from the part-1 minimum before it calls part2, so  *)
(* it prints nothing, neither a number nor the part-2 error message.       *)
C11_EmptySeedsReported ==
    /\ (text = None /\ alm.init_seeds = << >> /\ pc = "done") => answer = None
    /\ (text # None /\ Len(text[1].tables) >= NumStages /\ text[1].seeds = << >>) =>
          /\ pc \in {"parse", "conversions", "part1", "exit"}
          /\ stdout = << >>
          /\ ~PrintedNumber
          /\ pc = "exit" => exit = Err("InvalidInput")

(* C11 witness: main has ended on a text with seven tables and no seeds.   *)
C11_Witness ==
    /\ text # None
    /\ text[1].seeds = << >>
    /\ text[1].tables = FixtureMaps
    /\ pc = "exit"
    /\ exit = Err("InvalidInput")
    /\ stdout = << >>

LeastStart(seeds) == MinOf({seeds[2 * i - 1] : i \in 1..(Len(seeds) \div 2)})

OverlapPop == pc = "loop" /\ init_ranges # << >> /\ hit' # 0

Pushed == Len(init_ranges') - (Len(init_ranges) - 1)

FirstPoint(iv) == iv[1]

LastPoint(iv) == iv[1] + iv[2] - 1

(* C18 as stated: in one pop, a first overlapping rule whose domain        *)
(* contains S pushes no leftover, one that overlaps S at only one end      *)
(* pushes exactly one, and one whose domain is contained in S (and is not  *)
(* all of S) pushes exactly two.                                           *)
C18_LeftoversByContainment ==
    [][OverlapPop =>
          LET S == src_rng'
              D == Domain(map[hit'])
          IN /\ PointsOf(S) \subseteq D => Pushed = 0
             /\ (D \subseteq PointsOf(S) /\ D # PointsOf(S)) => Pushed = 2
             /\ (~(D \subseteq PointsOf(S)) /\ ~(PointsOf(S) \subseteq D)) => Pushed = 1]_vars

(* C18 amended: a first overlapping rule whose domain contains S pushes no *)
(* leftover, one whose domain contains exactly one end of S pushes exactly *)
(* one, and one whose domain lies strictly inside S, containing neither    *)
(* end of S, pushes exactly two: the part before and the part after the    *)
(* overlap.                                                                *)
C18_LeftoversByEnds ==
    [][OverlapPop =>
          LET S == src_rng'
              D == Domain(map[hit'])
              T == PointsOf(S) \cap D
              rest == SubSeq(init_ranges, 1, Len(init_ranges) - 1)
              before == <<FirstPoint(S), MinOf(T) - FirstPoint(S)>>
              after == <<MinOf(T) + Cardinality(T), LastPoint(S) - (MinOf(T) + Cardinality(T)) + 1>>
          IN /\ PointsOf(S) \subseteq D => (Pushed = 0 /\ init_ranges' = rest)
             /\ (FirstPoint(S) \in D /\ LastPoint(S) \notin D) =>
                   (Pushed = 1 /\ init_ranges' = Append(rest, after))
             /\ (FirstPoint(S) \notin D /\ LastPoint(S) \in D) =>
                   (Pushed = 1 /\ init_ranges' = Append(rest, before))
             /\ (FirstPoint(S) \notin D /\ LastPoint(S) \notin D) =>
                   (Pushed = 2 /\ init_ranges' = rest \o <<before, after>>)]_vars

(* C18 witness: a rule lying strictly inside the input interval has been   *)
(* applied and both leftovers are on the work list.                        *)
C18_Witness ==
    /\ pc = "loop"
    /\ Len(input) = 1
    /\ src_rng = input[1]
    /\ hit # 0
    /\ FirstPoint(src_rng) \notin Domain(map[hit])
    /\ LastPoint(src_rng) \notin Domain(map[hit])
    /\ Len(init_ranges) = 2
    /\ Len(final_ranges) = 1

(* C19: the work list loop of map_ranges terminates: each pop either emits *)
(* the popped interval as it is, or emits a non-empty overlap and pushes   *)
(* leftovers of strictly smaller total length, so the lengths left on the  *)
(* work list go down (or the list gets shorter) until it is empty and the  *)
(* call returns.                                                           *)
C19_WorklistTerminates ==
    /\ [][(pc = "loop" /\ init_ranges # << >>) =>
            /\ pc' = "loop"
            /\ Len(final_ranges') = Len(final_ranges) + 1
            /\ IF hit' = 0
               THEN /\ final_ranges'[Len(final_ranges')] = src_rng'
                    /\ Len(init_ranges') = Len(init_ranges) - 1
               ELSE /\ final_ranges'[Len(final_ranges')][2] > 0
                    /\ SumLen(init_ranges') < SumLen(init_ranges)
                    /\ SumLen(init_ranges') - SumLen(SubSeq(init_ranges, 1, Len(init_ranges) - 1))
                          < src_rng'[2]]_vars
    /\ (pc = "loop") ~> (pc = "returned")

(* C19 witness: a call that needed several pops of leftovers has returned. *)
C19_Witness ==
    /\ pc = "returned"
    /\ stage > 1
    /\ Len(input) > 1
    /\ Len(ret) > Len(input) + 1

(* C20: when every interval given to map_ranges has a length > 0, every    *)
(* interval pushed back onto the work list and every interval placed in    *)
(* final_ranges has a length > 0, in every call of the pipeline, and a     *)
(* rule with range_len 0 never produces an overlap.                        *)
C20_LengthsStayPositive ==
    (pc \in {"loop", "returned", "done"} /\ \A i \in DOMAIN input : input[i][2] > 0) =>
        /\ \A i \in DOMAIN init_ranges : init_ranges[i][2] > 0
        /\ \A i \in DOMAIN final_ranges : final_ranges[i][2] > 0
        /\ \A i \in DOMAIN ret : ret[i][2] > 0
        /\ hit # 0 => map[hit].range_len > 0

(* C20 witness: in a later call of the pipeline, a rule of length 0 that   *)
(* starts inside one of the intervals left them all as they were, after    *)
(* the call before had split the seed range.                               *)
C20_Witness ==
    /\ pc = "returned"
    /\ stage > 1
    /\ Len(input) > 1
    /\ Len(map) = 1
    /\ map[1].range_len = 0
    /\ \E i \in DOMAIN input :
          input[i][1] < map[1].source_start /\ map[1].source_start <= LastPoint(input[i])
    /\ hit = 0
    /\ Len(ret) = Len(input)

(* ====================== day 7: vocabulary and claims =================== *)

LabelsOf(cards) == {cards[i] : i \in DOMAIN cards}

Occurrences(cards, l) == Cardinality({i \in DOMAIN cards : cards[i] = l})

(* A multiset of counts, as the number of entries it holds of each count.  *)
CountsOf(cards) ==
    [n \in 1..HandLen |->
        Cardinality({l \in LabelsOf(cards) : Occurrences(cards, l) = n})]

Multiset(counts) ==
    [n \in 1..HandLen |-> Cardinality({i \in DOMAIN counts : counts[i] = n})]

TypeOfCounts(cards) ==
    LET k == CountsOf(cards)
    IN  CASE k = Multiset(<<5>>)             -> "FiveOfAKind"
          [] k = Multiset(<<4, 1>>)          -> "FourOfAKind"
          [] k = Multiset(<<3, 2>>)          -> "FullHouse"
          [] k = Multiset(<<3, 1, 1>>)       -> "ThreeOfAKind"
          [] k = Multiset(<<2, 2, 1>>)       -> "TwoPair"
          [] k = Multiset(<<2, 1, 1, 1>>)    -> "OnePair"
          [] k = Multiset(<<1, 1, 1, 1, 1>>) -> "HighCard"

(* The hand types from weakest to strongest, and the labels from weakest   *)
(* to strongest under the joker rule.                                      *)
TypeOrder ==
    <<"HighCard", "OnePair", "TwoPair", "ThreeOfAKind", "FullHouse", "FourOfAKind",
      "FiveOfAKind">>

LabelOrder == <<"J", "2", "3", "4", "5", "6", "7", "8", "9", "T", "Q", "K", "A">>

RankIn(order, x) == CHOOSE i \in DOMAIN order : order[i] = x

Reverse(o) == CASE o = "Less" -> "Greater" [] o = "Greater" -> "Less" [] OTHER -> o

(* C13: HandType::new classifies every 5-card hand by the multiset of its  *)
(* label counts ({5} five of a kind, {4,1} four of a kind, {3,2} full      *)
(* house, {3,1,1} three of a kind, {2,2,1} two pair, {2,1,1,1} one pair,   *)
(* {1,1,1,1,1} high card), whatever the order of the cards and whatever    *)
(* the order in which the count map is iterated.                           *)
C13_HandTypeByCounts ==
    pc \in {"camel_parse", "test_sorted"} =>
        \A i \in DOMAIN camel_cards :
            camel_cards[i].hand_type = TypeOfCounts(camel_cards[i].cards)

(* A two-pair hand whose count map was iterated single card first.         *)
C13_Witness ==
    /\ pc = "camel_parse"
    /\ Len(camel_cards) = 1
    /\ m_values = <<1, 2, 2>>
    /\ camel_cards[1].cards = <<"2", "3", "4", "3", "2">>
    /\ camel_cards[1].hand_type = "TwoPair"

FirstDifference(a, b) ==
    CHOOSE i \in DOMAIN a : a[i] # b[i] /\ \A j \in 1..(i - 1) : a[j] = b[j]

(* The order the claim describes: by type, then by the first card that     *)
(* differs.                                                                *)
ByTypeThenCards(a, b) ==
    IF a.hand_type # b.hand_type
    THEN int_cmp(RankIn(TypeOrder, a.hand_type), RankIn(TypeOrder, b.hand_type))
    ELSE IF a.cards = b.cards THEN "Equal"
    ELSE LET i == FirstDifference(a.cards, b.cards)
         IN  int_cmp(RankIn(LabelOrder, a.cards[i]), RankIn(LabelOrder, b.cards[i]))

(* Third hands for transitivity: the test hands, as parsed and as upgraded *)
(* by with_joker.                                                          *)
ThirdHands ==
    LET parsed == {Hand_parse([cards |-> c, bid |-> 0],
                              CHOOSE o \in iteration_orders(chunk_string(c)) : TRUE) :
                      c \in TestHands}
    IN  parsed \cup {with_joker(h) : h \in parsed}

LessEq(a, b) == cmp(a, b) # "Greater"

(* C14: Hand::cmp is a total order on 5-card hands over the labels         *)
(* J,2..9,T,Q,K,A: by hand type first, then by the first position where    *)
(* the cards differ under J < 2 < ... < 9 < T < Q < K < A; it is Equal     *)
(* only for identical card strings, cmp(a,b) is the reverse of cmp(b,a),   *)
(* and it is transitive.                                                   *)
C14_CmpIsTotalOrder ==
    Len(camel_cards) = 2 =>
        LET a == camel_cards[1]
            b == camel_cards[2]
        IN  /\ cmp(a, b) = ByTypeThenCards(a, b)
            /\ cmp(a, b) = "Equal" => a.cards = b.cards
            /\ cmp(a, b) = Reverse(cmp(b, a))
            /\ cmp(a, a) = "Equal"
            /\ \A c \in ThirdHands :
                  /\ LessEq(a, b) /\ LessEq(b, c) => LessEq(a, c)
                  /\ LessEq(a, c) /\ LessEq(c, b) => LessEq(a, b)
                  /\ LessEq(c, a) /\ LessEq(a, b) => LessEq(c, b)

(* test_card_sorting: KTJJT sorts before KK677, both two pair; the hand    *)
(* with the joker was read second.                                         *)
C14_Witness ==
    /\ pc = "test_sorted"
    /\ camel_input[1].cards = <<"K", "K", "6", "7", "7">>
    /\ Len(camel_cards) = 2
    /\ camel_cards[1].cards = <<"K", "T", "J", "J", "T">>
    /\ camel_cards[2].cards = <<"K", "K", "6", "7", "7">>
    /\ camel_cards[1].hand_type = camel_cards[2].hand_type

(* The labels a joker is replaced with: those of the hand and those of the *)
(* model's hands.                                                          *)
ReplacementLabels(cards) ==
    (LabelsOf(cards) \cup {LabelOrder[i] : i \in 1..MaxLabels}) \ {"J"}

Replacements(cards) ==
    LET js == {i \in DOMAIN cards : cards[i] = "J"}
    IN  {[i \in DOMAIN cards |-> IF i \in js THEN f[i] ELSE cards[i]] :
            f \in [js -> ReplacementLabels(cards)]}

StrongestType(cards) ==
    LET ts == {TypeOfCounts(r) : r \in Replacements(cards)}
    IN  CHOOSE t \in ts : \A u \in ts : RankIn(TypeOrder, u) <= RankIn(TypeOrder, t)

(* C15: with_joker gives a hand holding a 'J' the strongest type that      *)
(* replacing its J cards with other labels can reach (JJJJJ stays five of  *)
(* a kind), leaves the type of a hand without 'J' unchanged, and never     *)
(* lowers a type.  Every hand of the model is the hand of a one-hand       *)
(* input, where the property is evaluated.                                 *)
C15_JokerUpgrade ==
    [][pc = "with_joker" /\ jk' = jk + 1 /\ Len(camel_input) = 1 =>
        LET old == camel_cards[jk + 1]
            new == camel_cards'[jk + 1]
        IN  /\ new.cards = old.cards
            /\ "J" \in LabelsOf(old.cards) => new.hand_type = StrongestType(old.cards)
            /\ "J" \notin LabelsOf(old.cards) => new.hand_type = old.hand_type
            /\ RankIn(TypeOrder, new.hand_type) >= RankIn(TypeOrder, old.hand_type)]_vars

(* Two jokers paired beside another pair became four of a kind.            *)
C15_Witness ==
    /\ pc = "with_joker"
    /\ jk = 1
    /\ Len(camel_cards) = 1
    /\ Occurrences(camel_cards[1].cards, "J") = 2
    /\ TypeOfCounts(camel_cards[1].cards) = "TwoPair"
    /\ camel_cards[1].hand_type = "FourOfAKind"

(* ====================== day 8: vocabulary and claims =================== *)

(* The walk from a start, one step at a time along the cyclic step list.   *)
RECURSIVE WalkAt(_, _, _)
WalkAt(m, start, k) ==
    IF k = 0 THEN start
    ELSE get_next_loc(m, WalkAt(m, start, k - 1), m.steps[((k - 1) % Len(m.steps)) + 1])

Starts(m) == {loc \in DOMAIN m.mapping : ends_with(loc, "A")}

AllOnZ(m, k) == \A s \in Starts(m) : ends_with(WalkAt(m, s, k), "Z")

(* C16: the least common multiple of the recorded distances is the         *)
(* smallest step count k >= 1 at which all the walks from the nodes ending *)
(* in 'A', advanced in lock-step along the cyclic instruction list, are on *)
(* nodes ending in 'Z' together.                                           *)
C16_LcmIsFirstSimultaneousArrival ==
    pc = "net_done" =>
        /\ AllOnZ(network, p2_lcm[1])
        /\ \A k \in 1..(p2_lcm[1] - 1) : ~AllOnZ(network, k)

(* The step count at which the walk from start is first on a node ending   *)
(* in 'Z', 0 when that does not happen within n steps.                     *)
FirstZ(m, start, n) ==
    LET hits == {k \in 1..n : ends_with(WalkAt(m, start, k), "Z")}
    IN  IF hits = {} THEN 0 ELSE CHOOSE k \in hits : \A j \in hits : k <= j

CountOf(seq, x) == Cardinality({i \in DOMAIN seq : seq[i] = x})

(* C21: after every round of the walk loop, positions.len() plus           *)
(* distances.len() is the number of starting positions; every start whose  *)
(* walk has landed on a node ending in 'Z' has exactly one entry in        *)
(* distances, the step count of its first landing (walks that finish in    *)
(* the same round have one entry each), and the other walks are the ones   *)
(* still in positions.                                                     *)
C21_OneDistancePerWalk ==
    pc \in {"net_walk", "net_fold", "net_done"} =>
        LET first == [s \in Starts(network) |-> FirstZ(network, s, steps)]
            going == {s \in Starts(network) : first[s] = 0}
        IN  /\ Len(positions) + Len(distances) = Cardinality(Starts(network))
            /\ \A k \in 1..MaxSteps + 1 :
                   CountOf(distances, k) = Cardinality({s \in Starts(network) : first[s] = k})
            /\ \A i \in DOMAIN distances : distances[i] \in 1..steps
            /\ \A i \in DOMAIN positions :
                   CountOf(positions, positions[i]) =
                       Cardinality({s \in going : WalkAt(network, s, steps) = positions[i]})

C21_Witness ==
    /\ pc = "net_done"
    /\ Len(distances) = 2
    /\ distances[1] = distances[2]
    /\ steps = 2

(* C22: Navigator is a wrap-around ring over the steps.  For a non-empty    *)
(* step list of length n the k-th call of next() (k = 0, 1, 2, ...)        *)
(* returns Some(steps[k mod n]) and never None, so the loop over the       *)
(* iterator ends only at its break, when no position is left.              *)
C22_NavigatorIsRing ==
    /\ [](pc \in {"net_walk", "net_fold", "net_done"} /\ curr > 0 =>
            LET n == Len(network.steps)
                k == curr - 1
            IN  /\ nav_ret # None
                /\ nav_ret = Some(network.steps[(k % n) + 1]))
    /\ [][pc = "net_walk" /\ pc' # "panic" => curr' = curr + 1]_vars
    /\ [][pc = "net_walk" /\ pc' = "net_fold" => Len(positions') = 0]_vars

C22_Witness ==
    /\ pc = "net_walk"
    /\ Len(network.steps) = 2
    /\ curr = 3
    /\ nav_ret = Some(network.steps[1])
    /\ network.steps[1] # network.steps[2]

(* ====================== day 10: vocabulary and claims ================== *)

TilesOf(g) == {g.verts[i].coord : i \in DOMAIN g.verts}

NodeAt(g, t) == g.verts[CHOOSE i \in DOMAIN g.verts : g.verts[i].coord = t]

StartTile(g) == g.verts[CHOOSE i \in DOMAIN g.verts : g.verts[i].start].coord

HasStart(g) == \E i \in DOMAIN g.verts : g.verts[i].start

(* The tiles the pipe on tile t leads to; none for ground and for S.       *)
Ends(g, t) ==
    LET n == NodeAt(g, t)
    IN  IF n.start \/ n.ground THEN {} ELSE {n.neighbors[1], n.neighbors[2]}

(* Two tiles are joined when each leads to the other; S, whose pipe is not *)
(* known, is joined to every tile that leads to it.                        *)
Joined(g, a, b) ==
    /\ a # b
    /\ NodeAt(g, a).start \/ b \in Ends(g, a)
    /\ NodeAt(g, b).start \/ a \in Ends(g, b)

(* The joins of g, as pairs of tiles; joined tiles are side by side.       *)
Links(g) ==
    LET beside(a) == {<<a[1], a[2] + 1>>, <<a[1], a[2] - 1>>,
                      <<a[1] + 1, a[2]>>, <<a[1] - 1, a[2]>>} \cap TilesOf(g)
    IN  UNION {{<<a, b>> : b \in {c \in beside(a) : Joined(g, a, c)}} : a \in TilesOf(g)}

RECURSIVE JoinedTo(_, _)
JoinedTo(links, seen) ==
    LET more == {p[2] : p \in {q \in links : q[1] \in seen}} \ seen
    IN  IF more = {} THEN seen ELSE JoinedTo(links, seen \cup more)

(* The tiles joined to S, directly or through other tiles.                 *)
LoopOf(g) == JoinedTo(Links(g), {StartTile(g)})

(* S lies on a simple closed loop and exactly two tiles connect to S.      *)
OnSimpleLoop(g) ==
    /\ HasStart(g)
    /\ LET links == Links(g)
           loop  == JoinedTo(links, {StartTile(g)})
       IN  /\ Cardinality(loop) > 2
           /\ \A t \in loop : Cardinality({p \in links : p[1] = t}) = 2
    /\ Cardinality({t \in TilesOf(g) : StartTile(g) \in Ends(g, t)}) = 2

(* The largest number of joins on a shortest way from S to a loop tile.    *)
RECURSIVE FarthestFrom(_, _, _, _)
FarthestFrom(links, seen, frontier, d) ==
    LET more == {p[2] : p \in {q \in links : q[1] \in frontier}} \ seen
    IN  IF more = {} THEN d ELSE FarthestFrom(links, seen \cup more, more, d + 1)

Farthest(g) == FarthestFrom(Links(g), {StartTile(g)}, {StartTile(g)}, 0)

(* C17: when S lies on a simple closed loop of L pipe tiles and exactly    *)
(* two tiles connect to S, max_distance_from_start does not panic and      *)
(* returns L/2, the distance of the loop tile farthest from S.  It         *)
(* terminates: a round that does not return records two coordinates of the *)
(* grid that were not recorded before, and adds one to the distance.       *)
C17_WalkersMeetHalfWay ==
    /\ [](pc \in {"panic", "maze_done"} /\ OnSimpleLoop(graph) =>
            /\ pc = "maze_done"
            /\ 2 * max_dist[1] = Cardinality(LoopOf(graph))
            /\ max_dist[1] = Farthest(graph))
    /\ [](pc = "maze_loop" =>
            /\ DOMAIN dist_map \subseteq TilesOf(graph)
            /\ Cardinality(DOMAIN dist_map) = 2 * n1_dist + 1)
    /\ [][pc = "maze_loop" /\ pc' = "maze_loop" => n1_dist' = n1_dist + 1]_vars

(* The loop of 16 tiles among unconnected pipes: the walkers met after 8.  *)
C17_Witness ==
    /\ pc = "maze_done"
    /\ OnSimpleLoop(graph)
    /\ Cardinality(LoopOf(graph)) = 16
    /\ Cardinality({t \in TilesOf(graph) : ~NodeAt(graph, t).ground}) > 16
    /\ max_dist = Some(8)

(* The pipe tiles that lead to S.                                          *)
LeadingToStart(g) == {t \in TilesOf(g) : StartTile(g) \in Ends(g, t)}

(* The joins of g between tiles other than S.                              *)
PipeLinks(g) == {p \in Links(g) : p[1] # StartTile(g) /\ p[2] # StartTile(g)}

(* S lies on a closed pipe loop: two tiles lead to S, and pipes joined to  *)
(* one another lead from the one to the other without passing S.           *)
StartOnLoop(g) ==
    /\ HasStart(g)
    /\ LET links == PipeLinks(g)
       IN  \E a \in LeadingToStart(g) :
               (JoinedTo(links, {a}) \cap LeadingToStart(g)) # {a}

(* C23: in every grid in which S lies on a closed pipe loop, exactly two   *)
(* of the four tiles beside S have a neighbor pointer equal to the         *)
(* coordinate of S, so that the assertion of get_start_neighbors holds.    *)
C23_TwoStartNeighbors ==
    pc \in {"maze_loop", "maze_done", "panic"} /\ StartOnLoop(graph) =>
        Len(get_start_neighbors(graph)) = 2

(* ================== day 10, part 2: vocabulary and claims ============== *)

TNeighbors(g, t) == {map_at(g, t).neighbors[1], map_at(g, t).neighbors[2]}

(* main_loop is a closed loop: each of its tiles is joined to two other    *)
(* tiles of it, and these are joined back to it.                           *)
ClosedLoop(g) ==
    /\ g.main_loop # None
    /\ \A t \in g.main_loop[1] :
           /\ in_bounds(g, t)
           /\ Cardinality(TNeighbors(g, t)) = 2
           /\ \A b \in TNeighbors(g, t) :
                  b \in g.main_loop[1] /\ in_bounds(g, b) /\ t \in TNeighbors(g, b)

(* The tiles off the loop that the loop encloses: a ray from the tile to   *)
(* the west, drawn just above the middle of its row, crosses the loop      *)
(* wherever a loop tile is joined to the tile north of it, and the tile is *)
(* enclosed when the ray crosses the loop an odd number of times.          *)
Enclosed(g) ==
    LET loop == g.main_loop[1]
    IN  {t \in ((0..(g.rows - 1)) \X (0..(g.cols - 1))) \ loop :
            Cardinality({c \in 0..(t[2] - 1) :
                /\ <<t[1], c>> \in loop
                /\ <<t[1] - 1, c>> \in TNeighbors(g, <<t[1], c>>)}) % 2 = 1}

(* C24: after find_main_loop, ray_trace returns the number of tiles that   *)
(* are not on the main loop and are enclosed by it, on every grid with a   *)
(* closed loop through S, whatever pipe S stands for.                      *)
C24_RayTraceCountsEnclosed ==
    pc = "trace_done" /\ ClosedLoop(trace_graph) =>
        inside = Some(Cardinality(Enclosed(trace_graph)))

(* ============================ day 6: claims ============================ *)

(* C25: BigRace::smart returns the same count as BigRace::naive for every  *)
(* total_time and record_dist, also when no hold time beats the record.    *)
C25_SmartIsNaive ==
    pc = "kern_done" => smart_ret = naive_ret

(* ============================ day 11: claims =========================== *)

GalaxyTiles == {<<x, y>> \in (0..(Len(sky[1]) - 1)) \X (0..(Len(sky) - 1)) : sky[y + 1][x + 1] = "#"}

Between(a, b) == ((a + 1)..(b - 1)) \cup ((b + 1)..(a - 1))

FreeCols(a, b) == {x \in (0..(Len(sky[1]) - 1)) \cap Between(a[1], b[1]) : \A g \in GalaxyTiles : g[1] # x}

FreeRows(a, b) == {y \in (0..(Len(sky) - 1)) \cap Between(a[2], b[2]) : \A g \in GalaxyTiles : g[2] # y}

PairDist(a, b) == col_dist(galaxy, expansion, a[1], b[1]) + row_dist(galaxy, expansion, a[2], b[2])

(* C26: the distance col_dist + row_dist of two galaxies is their          *)
(* Manhattan distance plus the expansion amount for every column and row   *)
(* without a galaxy between them, it is the same in both orders of the     *)
(* two galaxies, and with the expansion amount 1 the sum over all pairs is *)
(* the sum part1-slow.rs computes on the doubled image.                    *)
C26_ExpandedDistance ==
    /\ pc \in {"sky_pairs", "sky_slow", "sky_done"} =>
          /\ {galaxy.galaxies[i] : i \in DOMAIN galaxy.galaxies} = GalaxyTiles
          /\ \A a, b \in GalaxyTiles :
                /\ PairDist(a, b) = abs(a[1] - b[1]) + abs(a[2] - b[2])
                      + expansion * (Cardinality(FreeCols(a, b)) + Cardinality(FreeRows(a, b)))
                /\ PairDist(a, b) = PairDist(b, a)
    /\ pc = "sky_done" /\ expansion = 1 => pairs_sum = slow_sum

(* Three galaxies, the second to the left of the first, with a column and  *)
(* a row without a galaxy between them; both programs have printed.        *)
C26_Witness ==
    /\ pc = "sky_done"
    /\ expansion = 1
    /\ Len(galaxy.galaxies) = 3
    /\ galaxy.galaxies[2][1] < galaxy.galaxies[1][1]
    /\ galaxy.row_adds # {}
    /\ galaxy.col_adds # {}
    /\ pairs_sum = slow_sum
    /\ \E a, b \in GalaxyTiles : FreeCols(a, b) # {} /\ FreeRows(a, b) # {}

(* ============================ day 3: claims ============================ *)

(* The calls made so far on the coordinate st.                             *)
CallsOn(st) == Cardinality({i \in 1..gk : <<gear_input[i][1], gear_input[i][2]>> = st})

(* What st adds to the gear sum.                                           *)
Contribution(st) == IF st \in DOMAIN gears THEN gears[st][1] * gears[st][2] ELSE 0

(* C27: after any sequence of gear_insert calls with non-zero values, a    *)
(* coordinate adds a non-zero product a[0] * a[1] to the gear sum exactly  *)
(* when two calls were made for it; with one call, or three or more, it    *)
(* adds 0.                                                                 *)
C27_GearOnlyWithTwoCalls ==
    pc \in {"gear_loop", "gear_done"} =>
        /\ \A st \in Stars : (Contribution(st) # 0) <=> (CallsOn(st) = 2)
        /\ pc = "gear_done" =>
              gear_sum = Some(sum_products(gears, {st \in Stars : CallsOn(st) = 2}))

(* ============================ day 9: claims ============================ *)

Finished == part1_pc \in {"done", "panic"} /\ part2_pc \in {"done", "panic"}

(* Every reading of the history is small.                                  *)
Small(l) == \A i \in DOMAIN l : l[i][1] = 0

====
